---- MODULE Spec2Model ----
(***************************************************************************)
(* fastoblig: the submission lifecycle (fastoblig/assessment.py), the      *)
(* sqlite storage of submissions (fastoblig/storage.py) and the value      *)
(* types of fastoblig/domain.py.                                           *)
(*                                                                         *)
(* Python values are encoded with one TLA+ type per field:                 *)
(*   None of a str / Path field        NoStr / NoPath                      *)
(*   None of an int / float field      NoInt                               *)
(*   None of a datetime field          NoTime                              *)
(*   a datetime                        [t |-> instant, tz |-> "utc" or     *)
(*                                      "naive"]                           *)
(*   a TEXT column holding isoformat() [t |-> instant, off |-> "+00:00" or *)
(*                                      "" ], NULL is NoText               *)
(*   a Path / a TEXT column of a path  [abs, dir, sub, leaf]: the file     *)
(*                                      dir/<sub>/__fastoblig__/leaf       *)
(***************************************************************************)
EXTENDS Integers, Sequences, FiniteSets, TLC

\* ------------------------------------------------------------------ bounds
MaxSubs == 2
MaxStudents == 2
MaxBatch == 1
MaxTime == 2
MaxPoints == 1
MaxCommits == 2
MaxStem == 2
MaxDepth == 1
MaxCourses == 2

\* ------------------------------------------------------------ value types
NoStr == "NULL"
NoInt == -1
NoTime == [t |-> -1, tz |-> "none"]
NoText == [t |-> -1, off |-> "null"]
NoPath == [abs |-> FALSE, dir |-> "", sub |-> 0, leaf |-> ""]
\* the relative path whose only segment is the word None: what Path("None")
\* is, and what str(None) reads back as
NonePath == [abs |-> FALSE, dir |-> "", sub |-> 0, leaf |-> "None"]

TheExercise == 1
SubIds == 1..MaxSubs
Students == 1..MaxStudents

\* domain.py SubmissionState: the enum's names and values
SubmissionState ==
  {"UNSUBMITTED", "SUBMITTED", "FAILED_IMPORTED", "PASSED_IMPORTED",
   "CHECKED_OUT", "TESTED", "FEEDBACK_GENERATED", "FEEDBACK_PUBLISHED",
   "FAILED", "PASSED"}

StateValue(s) ==
  CASE s = "UNSUBMITTED" -> 0
    [] s = "SUBMITTED" -> 1
    [] s = "FAILED_IMPORTED" -> 2
    [] s = "PASSED_IMPORTED" -> 3
    [] s = "CHECKED_OUT" -> 4
    [] s = "TESTED" -> 5
    [] s = "FEEDBACK_GENERATED" -> 6
    [] s = "FEEDBACK_PUBLISHED" -> 7
    [] s = "FAILED" -> 8
    [] s = "PASSED" -> 9

\* ------------------------------------------------------------ conversions
\* datetime.isoformat(): a naive datetime prints no offset
isoformat(dt) ==
  IF dt = NoTime THEN NoText
  ELSE [t |-> dt.t, off |-> IF dt.tz = "naive" THEN "" ELSE "+00:00"]

\* datetime.fromisoformat(text).replace(tzinfo=ZoneInfo("UTC")) if text else None
fromisoformat_utc(text) ==
  IF text = NoText THEN NoTime ELSE [t |-> text.t, tz |-> "utc"]

\* Path.absolute(): a relative path is anchored at the working directory
absolute(p) == [p EXCEPT !.abs = TRUE]

\* str(p.absolute()) if p else None
path_text(p) == IF p = NoPath THEN NoPath ELSE absolute(p)

\* str(p.absolute() if p else None): the absent path is written as "None"
path_text_str_none(p) == IF p = NoPath THEN NonePath ELSE absolute(p)

\* ------------------------------------------------------- domain.Submission
\* the Assessor has no submission / a lookup found none
NoSub ==
  [id |-> 0, exercise |-> 0, content |-> NoStr, state |-> "UNSUBMITTED",
   contributions |-> <<>>, submission_type |-> NoStr,
   submission_group_id |-> NoInt, submission_group_name |-> NoStr,
   submitted_at |-> NoTime, graded_at |-> NoTime, extended_to |-> NoTime,
   grade |-> NoInt, testresult_file |-> NoPath, comment_file |-> NoPath,
   feedback_file |-> NoPath]

\* ------------------------------------------------------------ the database
\* _SET_UP_DDL: table submissions keyed by (id, exercise), table
\* contributions in rowid (insertion) order, which is the order an
\* unordered SELECT returns
\* memberships: <<student_id, group_id>>; groups: group rows
EmptyTables ==
  [submissions |-> {}, contributions |-> <<>>, memberships |-> <<>>,
   groups |-> {}]

\* the statements on submissions name the column submission_type, which
\* _SET_UP_DDL does not create: on a database created by init_db they raise
\* sqlite3.OperationalError; Storage.__init__ opens an existing file as it is
HasSubmissionType(sch) == sch = "migrated"

\* SELECT student_id FROM contributions WHERE submission_id=?
select_contributions(view, sid) ==
  LET hits == SelectSeq(view.contributions, LAMBDA c : c[2] = sid)
  IN  [i \in 1..Len(hits) |-> hits[i][1]]

\* the Submission(...) built from one result row in get_submissions and
\* get_submission
load_row(view, r) ==
  [id |-> r.id, exercise |-> r.exercise, content |-> r.repo_url,
   state |-> r.state,
   contributions |-> select_contributions(view, r.id),
   submission_type |-> r.submission_type,
   submission_group_id |-> r.group_id,
   submission_group_name |-> r.group_name,
   submitted_at |-> fromisoformat_utc(r.submitted_at),
   graded_at |-> fromisoformat_utc(r.graded_at),
   extended_to |-> fromisoformat_utc(r.deadline),
   grade |-> r.grade,
   testresult_file |-> r.testresult_file,
   comment_file |-> r.comment_file,
   feedback_file |-> r.feedback_file]

\* Storage.get_submissions: every stored submission of the exercise
get_submissions(view, e) ==
  {load_row(view, r) : r \in {x \in view.submissions : x.exercise = e}}

\* Storage.get_submission: WHERE id = ?
get_submission(view, sid) ==
  LET rows == {x \in view.submissions : x.id = sid}
  IN  IF rows = {} THEN NoSub ELSE load_row(view, CHOOSE x \in rows : TRUE)

\* the parameter tuple of the UPDATE in update_submission and in
\* upsert_submissions
update_row(s) ==
  [id |-> s.id, exercise |-> s.exercise,
   repo_url |-> IF s.submission_type = "online_url" THEN s.content ELSE NoStr,
   submission_type |-> s.submission_type,
   group_id |-> s.submission_group_id,
   group_name |-> s.submission_group_name,
   state |-> s.state, grade |-> s.grade,
   deadline |-> isoformat(s.extended_to),
   submitted_at |-> isoformat(s.submitted_at),
   graded_at |-> isoformat(s.graded_at),
   comment_file |-> path_text(s.comment_file),
   testresult_file |-> path_text(s.testresult_file),
   feedback_file |-> path_text(s.feedback_file)]

\* UPDATE submissions SET ... WHERE id=? AND exercise=?
sql_update(view, s) ==
  [view EXCEPT !.submissions =
     {IF r.id = s.id /\ r.exercise = s.exercise THEN update_row(s) ELSE r
        : r \in view.submissions}]

\* the parameter tuple of the INSERT in upsert_submissions
upsert_insert_row(s) ==
  [update_row(s) EXCEPT !.feedback_file = path_text_str_none(s.feedback_file)]

\* the parameter tuple of the INSERT in _insert_submission
insert_row(s) ==
  [upsert_insert_row(s) EXCEPT !.repo_url = s.content]

\* primary key (id, exercise)
key_taken(view, s) ==
  \E r \in view.submissions : r.id = s.id /\ r.exercise = s.exercise

\* ----------------------------------------------------------- results
UpdateResult == {"UNCHANGED", "NEW", "MODIFIED", "REMOVED", "REJECTED"}

\* a dict keyed by submission id: "-" / NoSub stand for a missing key
NoStates == [i \in SubIds |-> "-"]
NoObjs == [i \in SubIds |-> NoSub]

\* what a call of a storage method leaves behind: the connection's view,
\* the two dicts of the SubmissionResult and the exception raised ("" if
\* the call returned)
Outcome(view, states, objs, exc) ==
  [view |-> view, states |-> states, objs |-> objs, exc |-> exc]

\* datetime.__lt__: an aware and a naive datetime do not compare
comparable(a, b) == a.tz = b.tz

\* ------------------------------------------------- Storage.load_submissions
\* select g.group_id, g.group_name from memberships m inner join groups g
\* ... where student_id = ? and g.group_category_id = ?   (fetchone)
group_of(view, student, category) ==
  LET hits == SelectSeq(view.memberships,
                LAMBDA m : m[1] = student /\
                   \E g \in view.groups :
                      g.group_id = m[2] /\ g.group_category_id = category)
  IN  IF hits = <<>> THEN NoInt ELSE hits[1][2]

group_name_of(view, gid) ==
  IF \E g \in view.groups : g.group_id = gid
  THEN (CHOOSE g \in view.groups : g.group_id = gid).group_name
  ELSE NoStr

\* select student_id from memberships where group_id = ?
members_of(view, gid) ==
  LET hits == SelectSeq(view.memberships, LAMBDA m : m[2] = gid)
  IN  [i \in 1..Len(hits) |-> hits[i][1]]

\* the group lookup of a new submission without a group
with_group(new, gid, name) ==
  IF gid = NoInt THEN new
  ELSE [new EXCEPT !.submission_group_id = gid, !.submission_group_name = name]

group_found(view, new, gid) == with_group(new, gid, group_name_of(view, gid))

resolve_group(view, category, new) ==
  IF new.submission_group_id = NoInt /\ category # NoInt
  THEN group_found(view, new, group_of(view, new.contributions[1], category))
  ELSE new

\* insert into contributions (student_id, submission_id)
\*   select student_id, ? from memberships where group_id = ? returning ...
pair_taken(view, student, sid) ==
  \E i \in 1..Len(view.contributions) : view.contributions[i] = <<student, sid>>

\* one pass of the loop body of load_submissions for a submission that is
\* not stored yet
\* self._insert_submission(cursor, new_submission)
load_insert(view1, new2) ==
  IF key_taken(view1, new2)
  THEN [view |-> view1, sub |-> new2, exc |-> "IntegrityError"]
  ELSE [view |-> [view1 EXCEPT !.submissions = @ \cup {insert_row(new2)}],
        sub |-> new2, exc |-> ""]

\* the contribution rows of a submission of a group: one per member
load_contributions(view, new1, members) ==
  IF new1.submission_group_id = NoInt
  THEN load_insert(view, new1)
  ELSE IF \E i \in 1..Len(members) : pair_taken(view, members[i], new1.id)
  THEN [view |-> view, sub |-> new1, exc |-> "IntegrityError"]
  ELSE load_insert(
         [view EXCEPT !.contributions =
            @ \o [i \in 1..Len(members) |-> <<members[i], new1.id>>]],
         [new1 EXCEPT !.contributions = members])

load_grouped(view, new1) ==
  load_contributions(view, new1, members_of(view, new1.submission_group_id))

load_new(view, category, new0) ==
  IF new0.submission_group_id = NoInt /\ category # NoInt
       /\ new0.contributions = <<>>
  THEN [view |-> view, sub |-> new0, exc |-> "IndexError"]
  ELSE load_grouped(view, resolve_group(view, category, new0))

\* the classification of an incoming submission that is stored already; no
\* statement is executed for it
load_old(old, new) ==
  IF old.submitted_at = NoTime \/ new.submitted_at = NoTime
  THEN [state |-> "-", obj |-> old, exc |-> "AssertionError"]
  ELSE IF ~comparable(old.submitted_at, new.submitted_at)
  THEN [state |-> "-", obj |-> old, exc |-> "TypeError"]
  ELSE IF old.submitted_at.t < new.submitted_at.t
  THEN [state |-> "MODIFIED", obj |-> new, exc |-> ""]
  ELSE IF StateValue(old.state) > StateValue(new.state)
  THEN [state |-> "REJECTED", obj |-> old, exc |-> ""]
  ELSE [state |-> "UNCHANGED", obj |-> old, exc |-> ""]

\* the mutant of load_body: the record of a stored submission is written
\* over its row
load_body_overwriting(view, category, current, new) ==
  IF \E o \in current : o.id = new.id
  THEN [view |-> sql_update(view, new), exc |-> "", hit |-> TRUE,
        old |-> load_old(CHOOSE o \in current : o.id = new.id, new),
        new |-> [view |-> view, sub |-> new, exc |-> ""]]
  ELSE [view |-> view, exc |-> "", hit |-> FALSE,
        old |-> [state |-> "NEW", obj |-> new, exc |-> ""],
        new |-> load_new(view, category, new)]

\* one pass of the loop body: the view, the two dicts and the exception
load_body(view, category, current, new) ==
  IF \E o \in current : o.id = new.id
  THEN [view |-> view, exc |-> "", hit |-> TRUE,
        old |-> load_old(CHOOSE o \in current : o.id = new.id, new),
        new |-> [view |-> view, sub |-> new, exc |-> ""]]
  ELSE [view |-> view, exc |-> "", hit |-> FALSE,
        old |-> [state |-> "NEW", obj |-> new, exc |-> ""],
        new |-> load_new(view, category, new)]

load_record(b, id, states, objs) ==
  IF b.hit
  THEN IF b.old.exc # ""
       THEN Outcome(b.view, states, objs, b.old.exc)
       ELSE Outcome(b.view, [states EXCEPT ![id] = b.old.state],
                    [objs EXCEPT ![id] = b.old.obj], "")
  ELSE IF b.new.exc # ""
       THEN Outcome(b.new.view, [states EXCEPT ![id] = "NEW"], objs, b.new.exc)
       ELSE Outcome(b.new.view, [states EXCEPT ![id] = "NEW"],
                    [objs EXCEPT ![id] = b.new.sub], "")

RECURSIVE load_loop(_, _, _, _, _, _, _)
load_next(o, category, current, batch, i) ==
  IF o.exc # "" THEN o
  ELSE load_loop(o.view, category, current, batch, i, o.states, o.objs)

load_loop(view, category, current, batch, i, states, objs) ==
  IF i > Len(batch) THEN Outcome(view, states, objs, "")
  ELSE load_next(load_record(load_body(view, category, current, batch[i]),
                             batch[i].id, states, objs),
                 category, current, batch, i + 1)

\* the submissions stored before the pass that the batch did not name
preexisting(current, states, objs) ==
  [states |-> [i \in SubIds |->
                 IF states[i] = "-" /\ \E o \in current : o.id = i
                 THEN "UNCHANGED" ELSE states[i]],
   objs |-> [i \in SubIds |->
                 IF states[i] = "-" /\ \E o \in current : o.id = i
                 THEN CHOOSE o \in current : o.id = i ELSE objs[i]]]

load_result(r, p) ==
  IF r.exc # "" THEN r ELSE Outcome(r.view, p.states, p.objs, "")

load_finish(current, r) == load_result(r, preexisting(current, r.states, r.objs))

load_pass(view, category, current, batch) ==
  load_finish(current,
              load_loop(view, category, current, batch, 1, NoStates, NoObjs))

load_submissions(view, sch, category, batch) ==
  IF ~HasSubmissionType(sch)
  THEN Outcome(view, NoStates, NoObjs, "OperationalError")
  ELSE load_pass(view, category, get_submissions(view, TheExercise), batch)

\* ----------------------------------------------- Storage.upsert_submissions
\* the attributes domain.Submission declares; reading any other attribute of
\* a pydantic model raises AttributeError
SubmissionFields ==
  {"id", "exercise", "content", "state", "contributions", "submission_type",
   "submission_group_id", "submission_group_name", "submitted_at", "graded_at",
   "extended_to", "grade", "testresult_file", "comment_file", "feedback_file"}

has_attr(name) == name \in SubmissionFields

is_resubmit(old_s, new_s) ==
  old_s.state \in {"FAILED", "FAILED_IMPORTED"} /\ new_s.state = "SUBMITTED"

\* the if / elif / else of the loop body: the classification of one
\* incoming submission and the statement it executes
upsert_one(view, old, new, force) ==
  LET olds == {o \in old : o.id = new.id}
      old_submission == CHOOSE o \in olds : TRUE
  IN  IF olds # {}
      THEN IF new = old_submission
           THEN [view |-> view, state |-> "UNCHANGED", obj |-> new, exc |-> ""]
           ELSE IF ~force
                   /\ StateValue(new.state) < StateValue(old_submission.state)
                   /\ ~is_resubmit(old_submission, new)
           THEN [view |-> view, state |-> "REJECTED", obj |-> old_submission,
                 exc |-> ""]
           ELSE [view |-> sql_update(view, new), state |-> "MODIFIED",
                 obj |-> new, exc |-> ""]
      ELSE IF key_taken(view, new)
           THEN [view |-> view, state |-> "NEW", obj |-> new,
                 exc |-> "IntegrityError"]
           ELSE [view |-> [view EXCEPT !.submissions =
                             @ \cup {upsert_insert_row(new)}],
                 state |-> "NEW", obj |-> new, exc |-> ""]

\* the loop over the batch: after the statement of the first submission the
\* loop header "for member, contribution in zip(new.members,
\* new.contributions)" reads new.members
upsert_loop(view, old, batch, force) ==
  IF batch = <<>> THEN Outcome(view, NoStates, NoObjs, "")
  ELSE
  LET r == upsert_one(view, old, batch[1], force)
      states == [NoStates EXCEPT ![batch[1].id] = r.state]
      objs == [NoObjs EXCEPT ![batch[1].id] = r.obj]
  IN  IF r.exc # "" THEN Outcome(r.view, states, NoObjs, r.exc)
      ELSE Outcome(r.view, states, objs, "AttributeError")

upsert_submissions(view, sch, batch, force) ==
  IF ~HasSubmissionType(sch)
  THEN Outcome(view, NoStates, NoObjs, "OperationalError")
  ELSE
  LET old == get_submissions(view, TheExercise)
  IN  \* single_unsubmitted reads s.members of every stored submission
      IF old # {} /\ ~has_attr("members")
      THEN Outcome(view, NoStates, NoObjs, "AttributeError")
      ELSE upsert_loop(view, old, batch, force)

\* ------------------------------------------------ assessment.Assessor
AssessmentPhase == {"DOWNLOADING", "TESTING", "EVALUATION", "PUBLISHING", "FINISHING"}

\* the mapping with an imported failure treated like a fresh submission
AssessmentPhase_next_imported(state) ==
  CASE state \in {"SUBMITTED", "FAILED_IMPORTED"} -> "DOWNLOADING"
    [] state = "CHECKED_OUT" -> "TESTING"
    [] state = "TESTED" -> "EVALUATION"
    [] state = "FEEDBACK_GENERATED" -> "PUBLISHING"
    [] state = "FEEDBACK_PUBLISHED" -> "FINISHING"
    [] OTHER -> "ValueError"

\* AssessmentPhase.next
AssessmentPhase_next(state) ==
  CASE state = "SUBMITTED" -> "DOWNLOADING"
    [] state = "CHECKED_OUT" -> "TESTING"
    [] state = "TESTED" -> "EVALUATION"
    [] state = "FEEDBACK_GENERATED" -> "PUBLISHING"
    [] state = "FEEDBACK_PUBLISHED" -> "FINISHING"
    [] OTHER -> "ValueError"

\* the content of feedback.xml: no file, not well-formed, no <review> text,
\* or a review with the assessment A or F
FeedbackKinds == {"none", "malformed", "noreview", "A", "F"}

\* read_feedback_xml: the pair (text, assessment), as what is present
review_of(kind) == kind \in {"A", "F"}
score_of(kind) == IF kind \in {"A", "F"} THEN kind ELSE ""

\* base_path / str(submission.id) / "__fastoblig__" / name
artifact_path(ex, sid, name) ==
  [ex.grading_path EXCEPT !.sub = sid, !.leaf = name]

\* Path.resolve()
resolve(p) == absolute(p)

\* what one phase method did: the Assessor's submission, the files, whether
\* it reached storage.update_submission, the exception that ended it, what
\* it reported instead of raising, and whether it called self.assess()
Done(sub, files, write, exc, note, recurse) ==
  [sub |-> sub, fs |-> files, write |-> write, exc |-> exc, note |-> note,
   recurse |-> recurse]

\* the answers of the operator and the outcomes of the external calls
EnvDefault ==
  [git |-> "ok", backend |-> "none", out |-> "text", use_ai |-> FALSE,
   comment |-> FALSE, prompt |-> "ok", token |-> TRUE, llm |-> "A",
   edit |-> FALSE, editor |-> "ok", edited |-> "F", upload |-> FALSE,
   issue |-> "url", link |-> FALSE, lms |-> "ok", anyway |-> FALSE,
   grade |-> "pass", numeric |-> TRUE, points |-> 0,
   commits |-> <<2, 1>>, zone |-> "Europe/Oslo"]

\* url sanitization: a trailing /tree/main is cut off
sanitize(url) ==
  IF url = "https://github.com/r/tree/main" THEN "https://github.com/r" ELSE url

is_github(url) ==
  url \in {"https://github.com/r", "https://github.com/r/tree/main"}

\* the clone ends without storage.update_submission: the new state is in
\* memory only when assess() is called again
checked_out_unsaved(s, f) ==
  Done([s EXCEPT !.state = "CHECKED_OUT"], f,
       FALSE, "", "", TRUE)

\* the end of a successful clone: the state is set, stored, and assess()
\* is called again
checked_out(s, f) ==
  Done([s EXCEPT !.state = "CHECKED_OUT"], f,
       TRUE, "", "", TRUE)

\* ------------------------------------------ the commit of the submission
\* the offset of LOCAL_TZ from UTC, in the unit of the instants
OsloOffset == 1

\* the zones the machine that runs the program can be set to
Zones == {"Europe/Oslo", "UTC"}

utcoffset(zone) == IF zone = "Europe/Oslo" THEN OsloOffset ELSE 0

\* datetime.fromtimestamp(ts): the naive wall clock of the machine's zone
fromtimestamp(ts, zone) == ts + utcoffset(zone)

\* datetime.fromtimestamp(commit.authored_date).replace(tzinfo=LOCAL_TZ): the
\* wall clock of the machine read as a wall clock of LOCAL_TZ
commit_dt(ts, zone) ==
  [t |-> fromtimestamp(ts, zone) - OsloOffset, tz |-> "utc"]

\* for commit in repo.iter_commits(): commits holds authored_date of each
\* commit, the head first; a commit's hexsha is its position, 0 is None
RECURSIVE iter_commits(_, _, _, _, _)
iter_commits(commits, i, submitted_at, zone, flag) ==
  IF i > Len(commits)
  THEN [hexsha |-> 0, flag |-> flag]
  ELSE IF commit_dt(commits[i], zone).t <= submitted_at.t
  THEN [hexsha |-> i, flag |-> flag]
  ELSE iter_commits(commits, i + 1, submitted_at, zone, TRUE)

\* if hexsha and flag: repo.git.checkout(hexsha)
checkout_wanted(sel) == sel.hexsha # 0 /\ sel.flag

head_after(sel) == IF checkout_wanted(sel) THEN sel.hexsha ELSE 1

\* the directory after clone_from, and after the checkout of the selection
cloned(f, commits) == [f EXCEPT !.dir = "repo", !.commits = commits, !.head = 1]

selected(f, sel) == [f EXCEPT !.head = head_after(sel)]

\* the try block after clone_from
clone_and_select(s, f, git, sel) ==
  IF git = "checkout_error" /\ checkout_wanted(sel)
  THEN Done(s, f, FALSE, "", "GitCommandError", FALSE)
  ELSE checked_out(s, selected(f, sel))

\* a _do_checkout that does not look at the type of the exercise
checkout_supported_any_type(sub, ex) ==
  ex.grading_path # NoPath /\ sub.content # NoStr

\* the exercises and contents _do_checkout works on
checkout_supported(sub, ex) ==
  /\ ex.description_type = "git_repo"
  /\ ex.grading_path # NoPath
  /\ sub.content # NoStr

\* a _do_checkout that never finds the submission's directory
checkout_conflict_never(f) == FALSE

\* submission_path.exists()
checkout_conflict(f) == f.dir # "absent"

\* Assessor._do_checkout
do_checkout(sub, ex, f, env) ==
  IF sub.contributions = <<>>
  THEN Done(sub, f, FALSE, "IndexError", "", FALSE)
  ELSE IF ~checkout_supported(sub, ex)
  THEN Done(sub, f, FALSE, "SystemExit", "unsupported", FALSE)
  ELSE IF checkout_conflict(f)
  THEN Done(sub, f, FALSE, "", "conflict", FALSE)
  ELSE
  LET s1 == [sub EXCEPT !.content = sanitize(sub.content)]
  IN  IF s1.submitted_at = NoTime
      THEN Done(s1, f, FALSE, "AssertionError", "", FALSE)
      ELSE IF env.git = "clone_error"
      THEN Done(s1, f, FALSE, "", "GitCommandError", FALSE)
      ELSE clone_and_select(s1, cloned(f, env.commits), env.git,
             iter_commits(env.commits, 1, s1.submitted_at, env.zone, FALSE))

\* Assessor._do_testing
do_testing(sub, ex, f, env) ==
  IF ex.grading_path = NoPath
  THEN Done(sub, f, FALSE, "AssertionError", "", FALSE)
  ELSE
  LET f1 == [f EXCEPT !.outdir = TRUE,
                      !.dir = IF f.dir = "absent" THEN "plain" ELSE f.dir]
  IN  IF f1.dir # "repo"
      THEN Done(sub, f1, FALSE, "InvalidGitRepositoryError", "", FALSE)
      ELSE IF env.backend = "pytest" /\ env.out = "empty"
      THEN Done(sub, f1, FALSE, "IndexError", "", FALSE)
      ELSE Done([sub EXCEPT
                   !.testresult_file =
                      resolve(artifact_path(ex, sub.id, "testrestult.txt")),
                   !.state = "TESTED"],
                [f1 EXCEPT !.testresult = TRUE], TRUE, "", "", TRUE)

\* an evaluation that stores the new state without the reference
generated_unreferenced(s, feedback_file) ==
  [s EXCEPT !.state = "FEEDBACK_GENERATED"]

\* submission.feedback_file = feedback_file.resolve(); submission.state = ...
generated(s, feedback_file) ==
  [s EXCEPT !.feedback_file = resolve(feedback_file),
            !.state = "FEEDBACK_GENERATED"]

\* Assessor._do_evaluation
do_evaluation(sub, ex, f, env) ==
  IF ex.grading_path = NoPath
  THEN Done(sub, f, FALSE, "AssertionError", "", FALSE)
  ELSE
  LET feedback_file == artifact_path(ex, sub.id, "feedback.xml")
      finish(s, files) ==
        IF files.feedback = "malformed"
        THEN Done(generated(s, feedback_file), files, TRUE, "ParseError", "",
                  FALSE)
        ELSE Done(generated(s, feedback_file), files, TRUE, "", "",
                  review_of(files.feedback) /\ env.use_ai)
  IN  IF env.use_ai
      THEN IF env.comment /\ ~f.outdir
           THEN Done(sub, f, FALSE, "FileNotFoundError", "", FALSE)
           ELSE
           LET s1 == IF env.comment
                     THEN [sub EXCEPT !.comment_file =
                             artifact_path(ex, sub.id, "comment.md")]
                     ELSE sub
               f1 == IF env.comment THEN [f EXCEPT !.comment = TRUE] ELSE f
           IN  IF env.prompt = "raise"
               THEN Done(s1, f1, FALSE, "Exception", "", FALSE)
               ELSE IF ~env.token
               THEN Done(s1, f1, FALSE, "", "no_token", FALSE)
               ELSE IF env.llm = "raise"
               THEN Done(s1, f1, FALSE, "Exception", "", FALSE)
               ELSE IF ~f1.outdir
               THEN Done(s1, f1, FALSE, "FileNotFoundError", "", FALSE)
               ELSE finish(s1, [f1 EXCEPT !.feedback = env.llm])
      ELSE IF ~f.outdir
           THEN Done(sub, f, FALSE, "FileNotFoundError", "", FALSE)
           ELSE IF env.edit /\ env.editor = "raise"
           THEN Done(sub, [f EXCEPT !.feedback = "F"], FALSE,
                     "FileNotFoundError", "", FALSE)
           ELSE finish(sub, [f EXCEPT !.feedback =
                               IF env.edit THEN env.edited ELSE "F"])

\* open() / ET.parse of the file a stored reference names
feedback_at(sub, ex, f) ==
  IF sub.feedback_file = resolve(artifact_path(ex, sub.id, "feedback.xml"))
  THEN f.feedback ELSE "none"

testresult_at(sub, ex, f) ==
  sub.testresult_file = resolve(artifact_path(ex, sub.id, "testrestult.txt"))
    /\ f.testresult

\* _do_publish ends without setting the state
publish_done_same_state(sub, f) ==
  Done(sub, f, TRUE, "", "", TRUE)

\* the end of _do_publish once the feedback is posted or the operator
\* concludes the step anyway
publish_done(sub, f) ==
  Done([sub EXCEPT !.state = "FEEDBACK_PUBLISHED"], f, TRUE, "", "", TRUE)

\* github.upload_issue: the issue is created and its url returned, or the
\* response is logged and None returned
upload_issue(issue) == IF issue = "url" THEN "posted" ELSE "upload_failed"

\* Assessor._do_publish
do_publish(sub, ex, f, env) ==
  LET kind == feedback_at(sub, ex, f)
      published == publish_done(sub, f)
      unposted == IF env.anyway THEN published
                  ELSE Done(sub, f, FALSE, "", "", FALSE)
  IN  IF sub.feedback_file = NoPath
      THEN Done(sub, f, FALSE, "AssertionError", "", FALSE)
      ELSE IF kind = "none"
      THEN Done(sub, f, FALSE, "FileNotFoundError", "", FALSE)
      ELSE IF kind = "malformed"
      THEN Done(sub, f, FALSE, "ParseError", "", FALSE)
      ELSE IF ~review_of(kind)
      THEN Done(sub, f, FALSE, "", "empty_feedback", FALSE)
      ELSE IF sub.content = NoStr
      THEN Done(sub, f, FALSE, "AssertionError", "", FALSE)
      ELSE IF is_github(sub.content)
      THEN IF ~env.upload THEN unposted
           ELSE IF ~env.token
           THEN Done(sub, f, FALSE, "", "no_token", FALSE)
           ELSE IF env.issue = "raise"
           THEN Done(sub, f, FALSE, "Exception", "", FALSE)
           ELSE IF env.link /\ env.issue = "url" /\ env.lms = "raise"
                   /\ sub.contributions # <<>>
           THEN Done(sub, f, FALSE, "Exception", "posted", FALSE)
           ELSE [published EXCEPT !.note = upload_issue(env.issue)]
      ELSE IF ~env.upload THEN unposted
           ELSE IF env.lms = "raise" /\ sub.contributions # <<>>
           THEN Done(sub, f, FALSE, "Exception", "", FALSE)
           ELSE [published EXCEPT
                   !.note = IF sub.contributions # <<>> THEN "posted" ELSE ""]

\* the grade a passed submission gets from the suggested character grade
grade_of(score, grade) ==
  IF score = "" THEN grade
  ELSE CASE score = "A" -> 100
         [] score = "B" -> 85
         [] score = "C" -> 70
         [] score = "D" -> 60
         [] OTHER -> 50

\* datetime.now(ZoneInfo("UTC"))
Now == [t |-> MaxTime, tz |-> "utc"]

\* the failing grade recorded under the state of an imported failure
fail_grade_imported(sub) == [sub EXCEPT !.grade = 0, !.state = "FAILED_IMPORTED"]

\* pass_fail grading, the answer fail / incomplete: grade 0.0, state FAILED
fail_grade(sub) == [sub EXCEPT !.grade = 0, !.state = "FAILED"]

\* a point score of zero taken as a pass
points_state_from_zero(points) == IF points >= 0 THEN "PASSED" ELSE "FAILED"

\* if float(score_input) > 0: PASSED else: FAILED
points_state(points) == IF points > 0 THEN "PASSED" ELSE "FAILED"

\* Assessor._do_finish
do_finish(sub, ex, f, env) ==
  LET kind == feedback_at(sub, ex, f)
      score == score_of(kind)
      graded(s) == Done([s EXCEPT !.graded_at = Now], f, TRUE, "", "", FALSE)
  IN  IF sub.testresult_file # NoPath /\ ~testresult_at(sub, ex, f)
      THEN Done(sub, f, FALSE, "FileNotFoundError", "", FALSE)
      ELSE IF sub.feedback_file # NoPath /\ kind = "none"
      THEN Done(sub, f, FALSE, "FileNotFoundError", "", FALSE)
      ELSE IF sub.feedback_file # NoPath /\ kind = "malformed"
      THEN Done(sub, f, FALSE, "ParseError", "", FALSE)
      ELSE IF env.lms = "raise" /\ sub.contributions # <<>>
      THEN Done(sub, f, FALSE, "Exception", "", FALSE)
      ELSE IF ex.grading_type = "pass_fail"
      THEN IF env.grade \in {"complete", "pass"}
           THEN graded([sub EXCEPT !.state = "PASSED",
                                   !.grade = grade_of(score, sub.grade)])
           ELSE graded(fail_grade(sub))
      ELSE IF ex.grading_type = "points"
      THEN IF ~env.numeric
           THEN Done(sub, f, FALSE, "ValueError", "", FALSE)
           ELSE graded([sub EXCEPT !.grade = env.points,
                          !.state = points_state(env.points)])
      ELSE graded(sub)

\* the dispatch of Assessor.assess
run_phase(phase, sub, ex, f, env) ==
  CASE phase = "DOWNLOADING" -> do_checkout(sub, ex, f, env)
    [] phase = "TESTING" -> do_testing(sub, ex, f, env)
    [] phase = "EVALUATION" -> do_evaluation(sub, ex, f, env)
    [] phase = "PUBLISHING" -> do_publish(sub, ex, f, env)
    [] phase = "FINISHING" -> do_finish(sub, ex, f, env)

\* ------------------------------------------------------------------ state
VARIABLES
  db,        \* the committed tables of store.sqlite
  tx,        \* the tables as the open connection sees them (db plus the
             \* statements executed since the last commit)
  schema,    \* "ddl": created by init_db; "migrated": an existing file whose
             \* submissions table has the column submission_type
  exercise,  \* the stored Exercise
  asr,       \* Assessor.submission (NoSub: no Assessor constructed)
  pc,        \* "idle", or "recursing": a phase has called self.assess()
  fs,        \* the submission's directory grading_path/<id> on disk
  runs,      \* how often each phase was completed and stored since the
             \* last reset, counted up to 2 (for the properties only)
  last       \* what the last call did (for the properties only)

vars == <<db, tx, schema, exercise, asr, pc, fs, runs, last>>

NoFiles ==
  [dir |-> "absent", outdir |-> FALSE, testresult |-> FALSE,
   comment |-> FALSE, feedback |-> "none", commits |-> <<>>, head |-> 0]

NoCall ==
  [op |-> "init", exc |-> "", states |-> NoStates, force |-> FALSE,
   phase |-> "-", proceed |-> FALSE, note |-> "", wrote |-> FALSE,
   id |-> NoInt, target |-> "-"]

\* the absolute grading directory chosen by download_exercise
GradingDir == [abs |-> TRUE, dir |-> "grading", sub |-> 0, leaf |-> ""]

Exercises ==
  [description_type : {"git_repo", "canvas_html"},
   grading_path : {NoPath, GradingDir},
   grading_type : {"pass_fail", "points"},
   submission_category_id : {NoInt, 1}]

\* group 1 of category 1 and who is in it
GroupRows == {[group_id |-> 1, group_name |-> "G1", group_category_id |-> 1]}
MembershipChoices ==
  {<<>>, <<<<1, 1>>>>} \cup
  {[i \in 1..MaxStudents |-> <<i, 1>>]}

\* ------------------------------------------------- reconciliation inputs
Times == [t : 1..MaxTime, tz : {"utc"}]

IncomingStates == {"UNSUBMITTED", "SUBMITTED", "FAILED", "PASSED"}

Incoming ==
  {[NoSub EXCEPT !.id = i, !.exercise = TheExercise, !.state = st,
                 !.contributions = c, !.content = "https://github.com/r",
                 !.submission_type = "online_url",
                 !.submitted_at = IF st = "UNSUBMITTED" THEN NoTime ELSE at]
     : i \in SubIds, st \in IncomingStates,
       c \in {<<1>>}, at \in Times}

Batches ==
  {<<>>} \cup UNION {[1..n -> Incoming] : n \in 1..MaxBatch}

\* ------------------------------------------------------- storage actions
Commit(view) == /\ tx' = view
                /\ db' = view

\* the end of a storage method: connection.commit() and the return of the
\* SubmissionResult, or the exception with the executed statements pending
StorageCall(op, force, r) ==
  /\ IF r.exc = "" THEN Commit(r.view)
                   ELSE tx' = r.view /\ db' = db
  /\ last' = [NoCall EXCEPT !.op = op, !.exc = r.exc,
                !.states = IF r.exc = "" THEN r.states ELSE NoStates,
                !.force = force]
  /\ UNCHANGED <<schema, exercise, asr, pc, fs, runs>>

\* Storage.load_submissions(exercise_id, submissions)
LoadSubmissions ==
  \E batch \in Batches :
    StorageCall("load", FALSE,
      load_submissions(tx, schema, exercise.submission_category_id, batch))

\* Storage.upsert_submissions(exercise_id, submissions, force)
UpsertSubmissions ==
  \E batch \in Batches, force \in BOOLEAN :
    StorageCall("upsert", force, upsert_submissions(tx, schema, batch, force))

\* reconciliation reads submission_category_id only
ReconExercises ==
  {e \in Exercises : /\ e.description_type = "git_repo"
                      /\ e.grading_path = GradingDir
                      /\ e.grading_type = "pass_fail"}

InitRecon ==
  /\ schema \in {"ddl", "migrated"}
  /\ exercise \in ReconExercises
  /\ \E m \in MembershipChoices :
       db = [EmptyTables EXCEPT !.memberships = m, !.groups = GroupRows]
  /\ tx = db
  /\ asr = NoSub
  /\ pc = "idle"
  /\ fs = [i \in SubIds |-> NoFiles]
  /\ runs = [p \in AssessmentPhase |-> 0]
  /\ last = NoCall

NextRecon == LoadSubmissions \/ UpsertSubmissions

SpecRecon == InitRecon /\ [][NextRecon]_vars

\* assess() running the phase whatever the operator answers
assess_call_unasked(phase, proceed, sub, ex, f, env) ==
  IF phase = "ValueError"
  THEN Done(sub, f, FALSE, "ValueError", "", FALSE)
  ELSE run_phase(phase, sub, ex, f, env)

\* Assessor.assess: the phase of the state, the confirmation, the phase
assess_call(phase, proceed, sub, ex, f, env) ==
  IF phase = "ValueError"
  THEN Done(sub, f, FALSE, "ValueError", "", FALSE)
  ELSE IF ~proceed
  THEN Done(sub, f, FALSE, "", "stopped", FALSE)
  ELSE run_phase(phase, sub, ex, f, env)

\* --------------------------------------------------- assessment inputs
Contents == {NoStr, "https://github.com/r", "https://github.com/r/tree/main",
             "https://gitlab.com/r"}

\* the submission the Assessor works on, as the backend reported it
DriverIncoming ==
  {[NoSub EXCEPT !.id = 1, !.exercise = TheExercise, !.state = "SUBMITTED",
                 !.contributions = <<1>>, !.content = c,
                 !.submission_type = "online_url",
                 !.submitted_at = [t |-> 1, tz |-> "utc"]]
     : c \in Contents}
  \cup
  {[NoSub EXCEPT !.id = 1, !.exercise = TheExercise, !.state = st,
                 !.contributions = <<1>>, !.content = "https://github.com/r",
                 !.submission_type = "online_url"]
     : st \in {"UNSUBMITTED", "SUBMITTED", "FAILED_IMPORTED", "PASSED_IMPORTED"}}

\* the exercises an Assessor is given: one per way _do_checkout can go, and
\* both grading types
DriverExercises ==
  {e \in Exercises :
     /\ e.submission_category_id = 1
     /\ \/ e.description_type = "git_repo" /\ e.grading_path = GradingDir
        \/ e.grading_type = "pass_fail" /\
           (e.description_type = "git_repo" \/ e.grading_path = GradingDir)}

CheckoutEnvs ==
  {[EnvDefault EXCEPT !.git = g] : g \in {"ok", "clone_error", "checkout_error"}}

TestingEnvs ==
  {[EnvDefault EXCEPT !.backend = b, !.out = o]
     : b \in {"pytest", "shell", "none"}, o \in {"text", "empty"}}

EvaluationEnvs ==
  {[EnvDefault EXCEPT !.use_ai = TRUE, !.comment = c, !.prompt = p,
                      !.token = t, !.llm = l]
     : c \in BOOLEAN, p \in {"ok", "raise"}, t \in BOOLEAN,
       l \in (FeedbackKinds \ {"none"}) \cup {"raise"}}
  \cup
  {[EnvDefault EXCEPT !.use_ai = FALSE, !.edit = e, !.editor = x, !.edited = k]
     : e \in BOOLEAN, x \in {"ok", "raise"}, k \in FeedbackKinds \ {"none"}}

PublishEnvs ==
  {[EnvDefault EXCEPT !.upload = u, !.token = t, !.issue = i, !.link = l,
                      !.lms = m, !.anyway = a]
     : u \in BOOLEAN, t \in BOOLEAN, i \in {"url", "none", "raise"},
       l \in BOOLEAN, m \in {"ok", "raise"}, a \in BOOLEAN}

FinishEnvs ==
  {[EnvDefault EXCEPT !.grade = g, !.numeric = n, !.points = pt, !.lms = m]
     : g \in {"pass", "complete", "fail", "incomplete"}, n \in BOOLEAN,
       pt \in 0..MaxPoints, m \in {"ok", "raise"}}

Envs(phase) ==
  CASE phase = "DOWNLOADING" -> CheckoutEnvs
    [] phase = "TESTING" -> TestingEnvs
    [] phase = "EVALUATION" -> EvaluationEnvs
    [] phase = "PUBLISHING" -> PublishEnvs
    [] phase = "FINISHING" -> FinishEnvs
    [] OTHER -> {EnvDefault}

\* ---------------------------------------------------- assessment actions
\* Storage.update_submission as called by the Assessor: the UPDATE and the
\* commit, or the OperationalError of a table without submission_type
Persist(sub) ==
  IF HasSubmissionType(schema)
  THEN Commit(sql_update(tx, sub))
  ELSE UNCHANGED <<db, tx>>

\* a command loads the submission and constructs Assessor(console, storage,
\* exercise, submission)
NewAssessor ==
  /\ pc = "idle"
  /\ HasSubmissionType(schema)
  /\ \E sid \in SubIds :
       /\ get_submission(tx, sid) # NoSub
       /\ asr' = get_submission(tx, sid)
  /\ last' = [NoCall EXCEPT !.op = "new"]
  /\ UNCHANGED <<db, tx, schema, exercise, pc, fs, runs>>

\* what a call of assess() leaves behind: r is what the phase method did
AssessDone(phase, proceed, stored, r) ==
  /\ IF r.write THEN Persist(r.sub) ELSE UNCHANGED <<db, tx>>
  /\ IF r.exc = "SystemExit"
     THEN asr' = NoSub
     ELSE asr' = r.sub
  /\ fs' = [fs EXCEPT ![asr.id] = r.fs]
  /\ pc' = IF r.recurse /\ (r.write => stored)
           THEN "recursing" ELSE "idle"
  /\ runs' = IF stored /\ runs[phase] < 2
             THEN [runs EXCEPT ![phase] = @ + 1] ELSE runs
  /\ last' = [NoCall EXCEPT !.op = "assess",
                !.phase = IF phase = "ValueError" THEN "-" ELSE phase,
                !.proceed = proceed /\ phase # "ValueError",
                !.note = r.note,
                !.wrote = stored,
                !.exc = IF r.write /\ ~stored
                        THEN "OperationalError" ELSE r.exc]
  /\ UNCHANGED <<schema, exercise>>

AssessCall(phase, proceed, r) ==
  AssessDone(phase, proceed, r.write /\ HasSubmissionType(schema), r)

\* Assessor.assess(): one call; the call a phase makes of assess() is the
\* next step
AssessPhase(phase) ==
  \E proceed \in BOOLEAN, env \in Envs(phase) :
    AssessCall(phase, proceed,
               assess_call(phase, proceed, asr, exercise, fs[asr.id], env))

Assess ==
  /\ asr # NoSub
  /\ AssessPhase(AssessmentPhase_next(asr.state))

\* Assessor.reset(target_state)
Reset ==
  /\ pc = "idle"
  /\ asr # NoSub
  /\ \E target \in SubmissionState :
       /\ asr' = [asr EXCEPT !.state = target]
       /\ Persist(asr')
       /\ last' = [NoCall EXCEPT !.op = "reset",
                     !.id = asr.id, !.target = target,
                     !.wrote = HasSubmissionType(schema),
                     !.exc = IF HasSubmissionType(schema) THEN ""
                             ELSE "OperationalError"]
  /\ runs' = [p \in AssessmentPhase |-> 0]
  /\ UNCHANGED <<schema, exercise, pc, fs>>

\* the process stops between two statements: the objects in memory and the
\* uncommitted statements of the connection are gone
Crash ==
  /\ asr # NoSub
  /\ asr' = NoSub
  /\ tx' = db
  /\ pc' = "idle"
  /\ last' = [NoCall EXCEPT !.op = "crash"]
  /\ UNCHANGED <<db, schema, exercise, fs, runs>>

\* the process stops inside a phase, after the phase's files were written
\* and before storage.update_submission
StopBeforeUpdate(r) ==
  /\ r.write
  /\ fs' = [fs EXCEPT ![asr.id] = r.fs]

CrashInPhase ==
  /\ asr # NoSub
  /\ AssessmentPhase_next(asr.state) # "ValueError"
  /\ \E env \in Envs(AssessmentPhase_next(asr.state)) :
       StopBeforeUpdate(run_phase(AssessmentPhase_next(asr.state), asr,
                                  exercise, fs[asr.id], env))
  /\ asr' = NoSub
  /\ tx' = db
  /\ pc' = "idle"
  /\ last' = [NoCall EXCEPT !.op = "crash",
                !.phase = AssessmentPhase_next(asr.state)]
  /\ UNCHANGED <<db, schema, exercise, runs>>

\* load_submissions of one fetched submission, committed if it returned
stored_if_returned(empty, r) == IF r.exc = "" THEN r.view ELSE empty

Loaded(empty, sch, category, s) ==
  stored_if_returned(empty, load_submissions(empty, sch, category, <<s>>))

\* the database after load_submissions stored one fetched submission
InitDriver ==
  /\ schema \in {"ddl", "migrated"}
  /\ exercise \in DriverExercises
  /\ \E m \in MembershipChoices, s \in DriverIncoming :
       db = Loaded([EmptyTables EXCEPT !.memberships = m, !.groups = GroupRows],
                   schema, exercise.submission_category_id, s)
  /\ tx = db
  /\ asr = NoSub
  /\ pc = "idle"
  /\ fs = [i \in SubIds |-> NoFiles]
  /\ runs = [p \in AssessmentPhase |-> 0]
  /\ last = NoCall

\* advance() without reset()
Next == NewAssessor \/ Assess \/ Crash \/ CrashInPhase

Spec == InitDriver /\ [][Next]_vars

\* main.do_reset: the steps back from the state of the submission to the
\* target; the first three only assign, the others read an attribute no
\* Submission has
reset_graded(sub, target) ==
  IF /\ StateValue(sub.state) > StateValue(target)
     /\ StateValue(sub.state) >= StateValue("FAILED")
  THEN [sub EXCEPT !.graded_at = NoTime, !.grade = NoInt,
                   !.state = "FEEDBACK_PUBLISHED"]
  ELSE sub

reset_published(sub, target) ==
  IF /\ StateValue(sub.state) > StateValue(target)
     /\ StateValue(sub.state) >= StateValue("FEEDBACK_PUBLISHED")
  THEN [sub EXCEPT !.state = "FEEDBACK_GENERATED"]
  ELSE sub

\* the attribute the next step back reads first: submission.feedback,
\* submission.testresult or submission.comment; "state" when no step is left
reset_reads(sub, target) ==
  IF StateValue(sub.state) <= StateValue(target) THEN "state"
  ELSE IF StateValue(sub.state) >= StateValue("FEEDBACK_GENERATED")
  THEN "feedback"
  ELSE IF StateValue(sub.state) >= StateValue("TESTED") THEN "testresult"
  ELSE IF StateValue(sub.state) >= StateValue("CHECKED_OUT") THEN "comment"
  ELSE "state"

do_reset_from(view, sch, sub, target) ==
  IF ~has_attr(reset_reads(sub, target))
  THEN Outcome(view, NoStates, NoObjs, "AttributeError")
  ELSE upsert_submissions(view, sch, <<sub>>, TRUE)

do_reset(view, sch, sub, target) ==
  do_reset_from(view, sch, reset_published(reset_graded(sub, target), target),
                target)

\* the command "submission grade --reset <state>" on a stored submission
DoResetCall(sid, target, r) ==
  /\ tx' = r.view
  /\ db' = IF r.exc = "" THEN r.view ELSE db
  /\ last' = [NoCall EXCEPT !.op = "do_reset", !.id = sid, !.target = target,
                !.exc = r.exc, !.wrote = (r.exc = "")]

DoReset ==
  /\ asr = NoSub
  /\ \E sid \in SubIds, target \in SubmissionState :
       /\ get_submission(tx, sid) # NoSub
       /\ get_submission(tx, sid).state # "UNSUBMITTED"
       /\ DoResetCall(sid, target,
                      do_reset(tx, schema, get_submission(tx, sid), target))
  /\ UNCHANGED <<schema, exercise, asr, pc, fs, runs>>

\* advance() and reset()
NextReset == Next \/ Reset \/ DoReset

\* a submitted repository of one student to a pass_fail exercise kept in git
InitReset ==
  /\ InitDriver
  /\ schema = "migrated"
  /\ Len(db.memberships) = 1
  /\ exercise.description_type = "git_repo"
  /\ exercise.grading_path = GradingDir
  /\ exercise.grading_type = "pass_fail"
  /\ \A r \in db.submissions :
       /\ r.state = "SUBMITTED"
       /\ r.repo_url = "https://github.com/r"
       /\ r.submitted_at # NoText

SpecReset == InitReset /\ [][NextReset]_vars

\* =================================================== the assessment workflow
\* the persisted state of submission sid ("-" if it is not stored)
persisted_state(tables, sid) ==
  IF \E r \in tables.submissions : r.id = sid
  THEN (CHOOSE r \in tables.submissions : r.id = sid).state
  ELSE "-"

\* the chain SUBMITTED -> CHECKED_OUT -> TESTED -> FEEDBACK_GENERATED ->
\* FEEDBACK_PUBLISHED -> {PASSED, FAILED}
Successor(s) ==
  CASE s = "SUBMITTED" -> {"CHECKED_OUT"}
    [] s = "CHECKED_OUT" -> {"TESTED"}
    [] s = "TESTED" -> {"FEEDBACK_GENERATED"}
    [] s = "FEEDBACK_GENERATED" -> {"FEEDBACK_PUBLISHED"}
    [] s = "FEEDBACK_PUBLISHED" -> {"PASSED", "FAILED"}
    [] OTHER -> {}

\* C1: across assess() calls without reset(), whatever the operator answers
\* and whatever the external calls do, the value of the persisted
\* SubmissionState of a submission never decreases.
C1_StateNeverDecreases ==
  [][\A r \in db.submissions : \A q \in db'.submissions :
        q.id = r.id => StateValue(q.state) >= StateValue(r.state)]_vars

\* a failing grade was recorded: the persisted state went all the way up to
\* FAILED
C1_Witness ==
  /\ last.op = "assess" /\ last.wrote /\ last.phase = "FINISHING"
  /\ persisted_state(db, 1) = "FAILED"

\* C2: assess() maps SUBMITTED to DOWNLOADING, CHECKED_OUT to TESTING, TESTED
\* to EVALUATION, FEEDBACK_GENERATED to PUBLISHING and FEEDBACK_PUBLISHED to
\* FINISHING; in every other state it raises ValueError without asking,
\* without a phase method and without a write: the record, the files and the
\* Assessor's submission stay as they were.
C2_NextPhaseMapping ==
  [][last'.op = "assess" =>
       /\ asr.state = "SUBMITTED" => last'.phase = "DOWNLOADING"
       /\ asr.state = "CHECKED_OUT" => last'.phase = "TESTING"
       /\ asr.state = "TESTED" => last'.phase = "EVALUATION"
       /\ asr.state = "FEEDBACK_GENERATED" => last'.phase = "PUBLISHING"
       /\ asr.state = "FEEDBACK_PUBLISHED" => last'.phase = "FINISHING"
       /\ asr.state \in {"UNSUBMITTED", "FAILED_IMPORTED", "PASSED_IMPORTED",
                         "FAILED", "PASSED"} =>
            /\ last'.exc = "ValueError" /\ last'.phase = "-"
            /\ ~last'.proceed /\ ~last'.wrote
            /\ db' = db /\ tx' = tx /\ fs' = fs /\ asr' = asr /\ runs' = runs
    ]_vars

\* assess() was called on an imported failure and raised
C2_Witness ==
  /\ last.op = "assess" /\ last.exc = "ValueError"
  /\ asr.state = "FAILED_IMPORTED" /\ persisted_state(db, 1) = "FAILED_IMPORTED"

\* C3: every change of the persisted state made by assess() goes from a
\* state to its successor in the chain, and without reset() no phase is
\* completed and stored more than once for the submission.
C3_NoSkipNoRepeat ==
  [][/\ \A r \in db.submissions : \A q \in db'.submissions :
          q.id = r.id /\ q.state # r.state => q.state \in Successor(r.state)
     /\ \A p \in AssessmentPhase : runs'[p] <= 1]_vars

\* the whole chain was walked: each phase completed once, the last one
\* ending in PASSED
C3_Witness ==
  /\ \A p \in AssessmentPhase : runs[p] = 1
  /\ persisted_state(db, 1) = "PASSED"

\* C4: a call of assess() in which the operator declines the confirmation
\* runs no phase method and changes nothing: the persisted record, the open
\* connection, the files and the Assessor's submission are as before, so any
\* number of declined calls leaves the record as it was.
C4_DeclineIsNoOp ==
  [][last'.op = "assess" /\ last'.phase # "-" /\ ~last'.proceed =>
       /\ db' = db /\ tx' = tx /\ fs' = fs /\ asr' = asr /\ runs' = runs
       /\ last'.note = "stopped" /\ last'.exc = "" /\ ~last'.wrote]_vars

\* the operator declined the publishing of a generated feedback
C4_Witness ==
  /\ last.op = "assess" /\ ~last.proceed /\ last.phase = "PUBLISHING"
  /\ persisted_state(db, 1) = "FEEDBACK_GENERATED"

\* C5: a phase stores the new state and the artifact reference in one
\* UPDATE, committed before assess() is called again: every change of a
\* persisted row is the complete record of the Assessor's submission after
\* the phase, with the artifact of the new state on disk and referenced; at
\* every moment, a crash and a restart included, the state the Assessor
\* dispatches on is the persisted one, so the phase that runs is the one
\* following the last persisted state.
C5_PhaseWriteIsAtomic ==
  [][/\ \A r \in db.submissions : \A q \in db'.submissions :
          q.id = r.id /\ q # r =>
            /\ last'.op = "assess" /\ last'.wrote
            /\ q = update_row(asr')
            /\ q.state = "CHECKED_OUT" => fs'[q.id].dir = "repo"
            /\ q.state = "TESTED" =>
                 /\ q.testresult_file =
                      resolve(artifact_path(exercise, q.id, "testrestult.txt"))
                 /\ fs'[q.id].testresult
            /\ q.state = "FEEDBACK_GENERATED" =>
                 /\ q.feedback_file =
                      resolve(artifact_path(exercise, q.id, "feedback.xml"))
                 /\ fs'[q.id].feedback # "none"
     /\ db' # db => tx' = db'
     /\ asr' # NoSub => asr'.state = persisted_state(db', asr'.id)
     /\ last'.op = "assess" /\ last'.phase # "-" =>
          last'.phase = AssessmentPhase_next(persisted_state(db, asr.id))
    ]_vars

\* the process stopped inside EVALUATION after feedback.xml was written: the
\* stored record is still the complete record of the TESTED submission
C5_Witness ==
  /\ last.op = "crash" /\ last.phase = "EVALUATION"
  /\ fs[1].feedback # "none"
  /\ persisted_state(db, 1) = "TESTED"
  /\ \E r \in db.submissions :
       /\ r.id = 1
       /\ r.feedback_file # resolve(artifact_path(exercise, 1, "feedback.xml"))
       /\ r.testresult_file =
            resolve(artifact_path(exercise, 1, "testrestult.txt"))

\* ========================================================= reconciliation
\* the stored row of submission sid as the connection sees it
stored_rows(view, sid) == {r \in view.submissions : r.id = sid}

\* the ids a batch names
batch_ids(batch) == {batch[i].id : i \in 1..Len(batch)}

\* C6: for every stored set and every incoming batch, a second
\* upsert_submissions of the same batch without force returns UNCHANGED for
\* every submission of the batch and changes no stored row.
C6_UpsertTwiceUnchanged ==
  HasSubmissionType(schema) =>
    \A batch \in Batches :
      LET r1 == upsert_submissions(tx, schema, batch, FALSE)
          r2 == upsert_submissions(r1.view, schema, batch, FALSE)
      IN  /\ r2.exc = ""
          /\ \A i \in batch_ids(batch) : r2.states[i] = "UNCHANGED"
          /\ r2.view = r1.view

\* C7: an incoming record whose state is lower than the stored one and that
\* is no resubmission is REJECTED without force, the stored row staying as it
\* is; with force it is MODIFIED and the row is overwritten.
C7_RegressionRejected ==
  HasSubmissionType(schema) =>
    \A batch \in Batches, force \in BOOLEAN :
      \A old \in get_submissions(tx, TheExercise) :
        (/\ batch # <<>>
         /\ batch[1].id = old.id
         /\ StateValue(batch[1].state) < StateValue(old.state)
         /\ ~is_resubmit(old, batch[1]))
        => LET r == upsert_submissions(tx, schema, batch, force)
           IN  /\ r.exc = ""
               /\ IF force
                  THEN /\ r.states[old.id] = "MODIFIED"
                       /\ stored_rows(r.view, old.id) = {update_row(batch[1])}
                  ELSE /\ r.states[old.id] = "REJECTED"
                       /\ stored_rows(r.view, old.id) = stored_rows(tx, old.id)

\* C8: a stored FAILED or FAILED_IMPORTED submission met without force by an
\* incoming record in state SUBMITTED is MODIFIED and is stored as SUBMITTED
\* afterwards.
C8_ResubmissionModified ==
  HasSubmissionType(schema) =>
    \A batch \in Batches :
      \A old \in get_submissions(tx, TheExercise) :
        (/\ batch # <<>>
         /\ batch[1].id = old.id
         /\ old.state \in {"FAILED", "FAILED_IMPORTED"}
         /\ batch[1].state = "SUBMITTED")
        => LET r == upsert_submissions(tx, schema, batch, FALSE)
           IN  /\ r.exc = ""
               /\ r.states[old.id] = "MODIFIED"
               /\ persisted_state(r.view, old.id) = "SUBMITTED"

\* C9: when a batch holds a submission Q that is not stored and names among
\* its contributors the only contributor S of a stored UNSUBMITTED submission
\* P, the pass deletes P and its contribution row and returns REMOVED for P
\* and NEW for Q.
C9_PlaceholderRetired ==
  HasSubmissionType(schema) =>
    \A batch \in Batches :
      \A P \in get_submissions(tx, TheExercise) :
        \A k \in 1..Len(batch) :
          (/\ P.state = "UNSUBMITTED"
           /\ Len(P.contributions) = 1
           /\ batch[k].id # P.id
           /\ stored_rows(tx, batch[k].id) = {}
           /\ \E j \in 1..Len(batch[k].contributions) :
                batch[k].contributions[j] = P.contributions[1])
          => LET r == upsert_submissions(tx, schema, batch, FALSE)
             IN  /\ r.exc = ""
                 /\ r.states[P.id] = "REMOVED"
                 /\ r.states[batch[k].id] = "NEW"
                 /\ stored_rows(r.view, P.id) = {}
                 /\ ~pair_taken(r.view, P.contributions[1], P.id)

\* C10: every stored submission of the exercise that the batch does not name
\* and that the placeholder cleanup does not remove keeps its row and is
\* returned as UNCHANGED.
C10_UntouchedUnchanged ==
  HasSubmissionType(schema) =>
    \A batch \in Batches :
      \A o \in get_submissions(tx, TheExercise) :
        (/\ o.id \notin batch_ids(batch)
         /\ ~(o.state = "UNSUBMITTED" /\ Len(o.contributions) = 1 /\
              \E k \in 1..Len(batch) :
                \E j \in 1..Len(batch[k].contributions) :
                  batch[k].contributions[j] = o.contributions[1]))
        => LET r == upsert_submissions(tx, schema, batch, FALSE)
           IN  /\ r.exc = ""
               /\ r.states[o.id] = "UNCHANGED"
               /\ stored_rows(r.view, o.id) = stored_rows(tx, o.id)

\* C11: a reconciliation batch is atomic: the statements a failed pass has
\* executed are never committed, also not by a later commit on the same
\* connection, and a pass that returns has committed everything it executed.
C11_BatchAtomic ==
  [][/\ \A r \in tx.submissions \ db.submissions : r \notin db'.submissions
     /\ \A i \in 1..Len(tx.contributions) :
          ~pair_taken(db, tx.contributions[i][1], tx.contributions[i][2]) =>
            ~pair_taken(db', tx.contributions[i][1], tx.contributions[i][2])
     /\ last'.op \in {"load", "upsert"} /\ last'.exc = "" => db' = tx'
    ]_vars

\* batches of two submissions with different ids
PairBatches == {b \in [1..2 -> Incoming] : b[1].id # b[2].id}

\* C12: an error raised while one submission of a batch is processed does
\* not end the pass: the other submission of the batch is still processed
\* and classified.
C12_ErrorIsLocal ==
  HasSubmissionType(schema) =>
    \A batch \in PairBatches :
      LET r == upsert_submissions(tx, schema, batch, FALSE)
      IN  r.exc # "" => /\ r.states[batch[1].id] # "-"
                        /\ r.states[batch[2].id] # "-"

\* the number of contribution rows (student, sid)
count_rows(view, student, sid) ==
  Cardinality({i \in 1..Len(view.contributions) :
                 view.contributions[i] = <<student, sid>>})

\* every submission a pass inserted or updated has one contribution row per
\* student of its contributions list
contribution_rows_ok(r) ==
  \A i \in SubIds :
    r.states[i] \in {"NEW", "MODIFIED"} /\ r.objs[i] # NoSub =>
      \A k \in 1..Len(r.objs[i].contributions) :
        count_rows(r.view, r.objs[i].contributions[k], i) = 1

\* C13: after a reconciliation pass every submission it inserted (NEW) or
\* updated (MODIFIED) has exactly one contribution row for each student of
\* its contributions list, however many passes went before.
C13_OneContributionRow ==
  HasSubmissionType(schema) =>
    \A batch \in Batches :
      /\ contribution_rows_ok(upsert_submissions(tx, schema, batch, FALSE))
      /\ contribution_rows_ok(
           load_submissions(tx, schema, exercise.submission_category_id, batch))

\* C14: a submission that is not stored is classified NEW by
\* upsert_submissions, and get_submissions afterwards returns a submission
\* equal to it in every field: content, state, group, contributions,
\* timestamps, grade and the three artifact references.
C14_StoreLoadRoundTrip ==
  HasSubmissionType(schema) =>
    \A batch \in Batches :
      batch # <<>> /\ stored_rows(tx, batch[1].id) = {} =>
        LET r == upsert_submissions(tx, schema, batch, FALSE)
        IN  /\ r.exc = ""
            /\ r.states[batch[1].id] = "NEW"
            /\ batch[1] \in get_submissions(r.view, TheExercise)

\* what a returned pass reports against what it leaves stored: MODIFIED goes
\* with the row of the incoming record, UNCHANGED and REJECTED with the row
\* stored before the pass
report_matches_row(view, batch, r) ==
  r.exc = "" =>
    \A k \in 1..Len(batch) :
      /\ r.states[batch[k].id] = "MODIFIED" =>
           stored_rows(r.view, batch[k].id) = {update_row(batch[k])}
      /\ r.states[batch[k].id] \in {"UNCHANGED", "REJECTED"} =>
           stored_rows(r.view, batch[k].id) = stored_rows(view, batch[k].id)

\* C15: whenever upsert_submissions or load_submissions reports MODIFIED for
\* a submission id, the stored row of that id afterwards carries the fields
\* of the incoming record; whenever it reports UNCHANGED or REJECTED the
\* stored row is the old one.
C15_ReportMatchesRow ==
  HasSubmissionType(schema) =>
    \A batch \in Batches :
      /\ report_matches_row(tx, batch,
           upsert_submissions(tx, schema, batch, FALSE))
      /\ report_matches_row(tx, batch,
           load_submissions(tx, schema, exercise.submission_category_id, batch))

\* ---------------------------------------------------------------------
\* Claims about the DOWNLOADING and TESTING phases
\* ---------------------------------------------------------------------

\* C16: DOWNLOADING never overwrites an existing checkout: when the
\* directory grading_path/<submission id> exists, a confirmed DOWNLOADING
\* phase reports a conflict, clones nothing, and the persisted state stays
\* SUBMITTED.
C16_NoOverwrite ==
  [][(/\ asr # NoSub
      /\ last'.op = "assess" /\ last'.phase = "DOWNLOADING" /\ last'.proceed
      /\ asr.contributions # <<>>
      /\ checkout_supported(asr, exercise)
      /\ fs[asr.id].dir # "absent")
     => /\ last'.note = "conflict"
        /\ last'.exc = ""
        /\ fs' = fs
        /\ db' = db
        /\ persisted_state(db', asr.id) = "SUBMITTED"
    ]_vars

\* a confirmed DOWNLOADING phase has found the directory of a checkout that
\* failed after the clone, and has left everything as it was
C16_Witness ==
  /\ last.op = "assess" /\ last.phase = "DOWNLOADING" /\ last.proceed
  /\ last.note = "conflict"
  /\ fs[1].dir = "repo"
  /\ persisted_state(db, 1) = "SUBMITTED"

\* C17: when the clone or the checkout of the selected commit fails in
\* DOWNLOADING, the failure is reported and the program goes on, the
\* persisted state stays SUBMITTED, and the next assess() runs DOWNLOADING
\* again and can bring the submission to CHECKED_OUT.
C17_FailureRecoverable ==
  (/\ asr # NoSub
   /\ last.op = "assess" /\ last.phase = "DOWNLOADING"
   /\ last.note = "GitCommandError")
  => /\ last.exc = ""
     /\ persisted_state(db, asr.id) = "SUBMITTED"
     /\ AssessmentPhase_next(asr.state) = "DOWNLOADING"
     /\ \E env \in CheckoutEnvs :
          /\ do_checkout(asr, exercise, fs[asr.id], env).write
          /\ do_checkout(asr, exercise, fs[asr.id], env).sub.state = "CHECKED_OUT"

\* ------------------------------------------------- commit selection inputs
CommitTimes == 0..(MaxTime + 1)

\* authored_date of the commits of a repository, the head first
Histories ==
  {h \in UNION {[1..n -> CommitTimes] : n \in 1..MaxCommits} :
     \A i \in 1..(Len(h) - 1) : h[i] > h[i + 1]}

CommitEnvs ==
  {[EnvDefault EXCEPT !.git = g, !.commits = h, !.zone = z]
     : g \in {"ok", "checkout_error"}, h \in Histories, z \in Zones}

CommitIncoming ==
  {[NoSub EXCEPT !.id = 1, !.exercise = TheExercise, !.state = "SUBMITTED",
                 !.contributions = <<1>>, !.content = "https://github.com/r",
                 !.submission_type = "online_url", !.submitted_at = at]
     : at \in Times}

\* a confirmed assess() of a SUBMITTED submission, for every repository and
\* every zone of the machine
Checkout ==
  /\ asr # NoSub
  /\ AssessmentPhase_next(asr.state) = "DOWNLOADING"
  /\ \E env \in CommitEnvs :
       AssessCall("DOWNLOADING", TRUE,
                  assess_call("DOWNLOADING", TRUE, asr, exercise,
                              fs[asr.id], env))

InitCommits ==
  /\ schema = "migrated"
  /\ exercise \in {e \in DriverExercises :
                     e.description_type = "git_repo" /\ e.grading_path = GradingDir}
  /\ \E m \in MembershipChoices, s \in CommitIncoming :
       db = Loaded([EmptyTables EXCEPT !.memberships = m, !.groups = GroupRows],
                   schema, exercise.submission_category_id, s)
  /\ tx = db
  /\ asr = NoSub
  /\ pc = "idle"
  /\ fs = [i \in SubIds |-> NoFiles]
  /\ runs = [p \in AssessmentPhase |-> 0]
  /\ last = NoCall

NextCommits == NewAssessor \/ Checkout \/ Crash

SpecCommits == InitCommits /\ [][NextCommits]_vars

\* the commits of a history authored at or before an instant
at_or_before(commits, at) == {i \in 1..Len(commits) : commits[i] <= at.t}

\* the latest of them
latest_at_or_before(commits, at) ==
  CHOOSE i \in at_or_before(commits, at) :
    \A k \in at_or_before(commits, at) : commits[k] <= commits[i]

\* C18: for every commit history and every submitted_at, DOWNLOADING leaves
\* the working directory at the latest commit authored at or before
\* submitted_at when such a commit exists and a commit newer than
\* submitted_at exists, and at the cloned head otherwise.
C18_CommitSelection ==
  \A i \in SubIds :
    fs[i].dir = "repo" /\ persisted_state(db, i) = "CHECKED_OUT" =>
      fs[i].head =
        IF /\ at_or_before(fs[i].commits, get_submission(db, i).submitted_at) # {}
           /\ \E k \in 1..Len(fs[i].commits) :
                fs[i].commits[k] > get_submission(db, i).submitted_at.t
        THEN latest_at_or_before(fs[i].commits, get_submission(db, i).submitted_at)
        ELSE 1

\* the exercises a checkout is valid for
git_exercise(ex) == ex.description_type = "git_repo" /\ ex.grading_path # NoPath

\* C19: the phases that need a checkout run only for an exercise of type
\* git_repo with grading_path set: DOWNLOADING on any other exercise aborts
\* and changes neither the persisted rows nor the files, so no submission of
\* such an exercise is ever persisted as CHECKED_OUT or beyond, and no
\* directory is ever created for it.
C19_CheckoutOnlyForGitRepo ==
  [][/\ (/\ asr # NoSub
         /\ last'.op = "assess" /\ last'.phase = "DOWNLOADING" /\ last'.proceed
         /\ ~git_exercise(exercise))
        => /\ last'.exc \in {"SystemExit", "IndexError"}
           /\ db' = db
           /\ fs' = fs
     /\ ~git_exercise(exercise) =>
          \A i \in SubIds :
            /\ persisted_state(db', i) \notin
                 {"CHECKED_OUT", "TESTED", "FEEDBACK_GENERATED",
                  "FEEDBACK_PUBLISHED"}
            /\ fs'[i].dir = "absent"
    ]_vars

\* a confirmed DOWNLOADING on an exercise that is no git repository, with a
\* grading_path set, has exited and left the submission SUBMITTED
C19_Witness ==
  /\ exercise.description_type # "git_repo"
  /\ exercise.grading_path # NoPath
  /\ last.op = "assess" /\ last.phase = "DOWNLOADING" /\ last.proceed
  /\ last.exc = "SystemExit" /\ last.note = "unsupported"
  /\ persisted_state(db, 1) = "SUBMITTED"
  /\ fs[1].dir = "absent"

\* C20: once confirmed, TESTING on a checked-out repository always ends
\* with the persisted state TESTED and the stored test-result reference set
\* to the artifact path, for every backend (pytest, shell, none) and every
\* output of the tests, the empty output included.
C20_TestingAlwaysTested ==
  [][(/\ asr # NoSub
      /\ last'.op = "assess" /\ last'.phase = "TESTING" /\ last'.proceed
      /\ fs[asr.id].dir = "repo")
     => /\ last'.exc = ""
        /\ persisted_state(db', asr.id) = "TESTED"
        /\ \A r \in stored_rows(db', asr.id) :
             r.testresult_file =
               resolve(artifact_path(exercise, asr.id, "testrestult.txt"))
        /\ fs'[asr.id].testresult
    ]_vars

\* ---------------------------------------------------------------------
\* Claims about EVALUATION, PUBLISHING, FINISHING and reset
\* ---------------------------------------------------------------------

\* the stored reference of the feedback of a submission
feedback_referenced(tables, ex, sid) ==
  /\ stored_rows(tables, sid) # {}
  /\ \A r \in stored_rows(tables, sid) :
       r.feedback_file = resolve(artifact_path(ex, sid, "feedback.xml"))

publish_as_answered(env, r) ==
  /\ r.note = "posted" => env.upload
  /\ r.exc = "" =>
       ((r.write /\ r.sub.state = "FEEDBACK_PUBLISHED")
          <=> (r.note = "posted" \/ (~env.upload /\ env.anyway)))
  /\ ~env.upload /\ ~env.anyway =>
       ~r.write /\ r.sub.state = "FEEDBACK_GENERATED"

advanced(sub, r) ==
  r.write /\ StateValue(r.sub.state) > StateValue(sub.state)

\* some answers of the operator, the upload of the feedback declined, under
\* which the next assess() advances the submission
can_advance(sub, ex, f) ==
  \E env \in Envs(AssessmentPhase_next(sub.state)) :
    /\ ~env.upload
    /\ advanced(sub, assess_call(AssessmentPhase_next(sub.state), TRUE,
                                 sub, ex, f, env))

\* C23: the workflow never dead-ends: in every state that has a mapped phase
\* (SUBMITTED .. FEEDBACK_PUBLISHED) of a submission with a url and a
\* submission time to an exercise kept in git, some answers of the operator make the next assess()
\* advance the state, also when no feedback is posted and on either path of
\* the evaluation; repeated, this reaches PASSED or FAILED.
C23_NeverDeadEnds ==
  (/\ asr # NoSub
   /\ AssessmentPhase_next(asr.state) \in AssessmentPhase
   /\ git_exercise(exercise)
   /\ asr.content # NoStr
   /\ asr.submitted_at # NoTime
   /\ asr.contributions # <<>>)
  => can_advance(asr, exercise, fs[asr.id])

finish_state(ex, env) ==
  IF ex.grading_type = "pass_fail"
  THEN IF env.grade \in {"pass", "complete"} THEN "PASSED" ELSE "FAILED"
  ELSE IF env.points > 0 THEN "PASSED" ELSE "FAILED"

finish_as_answered(ex, env, r) ==
  r.write => /\ r.exc = ""
             /\ r.sub.state = finish_state(ex, env)
             /\ r.sub.graded_at # NoTime

\* C25: when FINISHING completes, the persisted state is PASSED or FAILED
\* and graded_at is set: under pass_fail the answers pass and complete give
\* PASSED, fail and incomplete give FAILED; under points a score above 0
\* gives PASSED and any other score FAILED.
C25_FinishGrades ==
  [][/\ (asr # NoSub /\ asr.state = "FEEDBACK_PUBLISHED") =>
          \A env \in FinishEnvs :
            finish_as_answered(exercise, env,
                               do_finish(asr, exercise, fs[asr.id], env))
     /\ (/\ asr # NoSub
         /\ last'.op = "assess" /\ last'.phase = "FINISHING" /\ last'.wrote)
        => /\ persisted_state(db', asr.id) \in {"PASSED", "FAILED"}
           /\ \A r \in stored_rows(db', asr.id) :
                /\ r.graded_at # NoText
                /\ r.state = asr'.state
    ]_vars

\* a points exercise graded with the score 0: FAILED, with a grading time
C25_Witness ==
  /\ exercise.grading_type = "points"
  /\ last.op = "assess" /\ last.phase = "FINISHING" /\ last.wrote
  /\ persisted_state(db, 1) = "FAILED"
  /\ \A r \in stored_rows(db, 1) : r.grade = 0 /\ r.graded_at # NoText

\* the columns of a stored row a reset is to leave alone
kept_by_reset(r) ==
  <<r.grade, r.graded_at, r.comment_file, r.testresult_file, r.feedback_file>>

\* C26: Assessor.reset(target) sets the persisted state to exactly target in
\* one step, for any current state and any target, and changes nothing
\* else: grade, graded_at, the three artifact references, the files and the
\* checkout directory are left as they were.
C26_ResetSetsStateOnly ==
  [][last'.op = "reset" =>
       /\ last'.wrote
       /\ persisted_state(db', asr.id) = asr'.state
       /\ \A r \in stored_rows(db, asr.id) : \A q \in stored_rows(db', asr.id) :
            kept_by_reset(q) = kept_by_reset(r)
       /\ fs' = fs
    ]_vars

\* C27: in every persisted record, whatever sequence of assess(), reset()
\* and reconciliation led to it, an artifact reference is set only if the
\* phase that produces it is completed in the current state: a set
\* testresult_file implies a state at or above TESTED, a set feedback_file
\* a state at or above FEEDBACK_GENERATED.
C27_ArtifactInvariant ==
  \A r \in db.submissions :
    /\ r.testresult_file # NoPath =>
         StateValue(r.state) >= StateValue("TESTED")
    /\ r.feedback_file # NoPath =>
         StateValue(r.state) >= StateValue("FEEDBACK_GENERATED")

\* a reset from state s to target t goes back past the state x
past(s, t, x) ==
  StateValue(s) >= StateValue(x) /\ StateValue(t) < StateValue(x)

\* the row q and the directory f left by a reset of the row r to target t
reset_cleans(r, q, f, t) ==
  /\ q.state = t
  /\ q.feedback_file =
       IF past(r.state, t, "FEEDBACK_GENERATED") THEN NoPath
       ELSE r.feedback_file
  /\ q.testresult_file =
       IF past(r.state, t, "TESTED") THEN NoPath ELSE r.testresult_file
  /\ q.comment_file =
       IF past(r.state, t, "CHECKED_OUT") THEN NoPath ELSE r.comment_file
  /\ past(r.state, t, "CHECKED_OUT") => f.dir = "absent"
  /\ r.state \in {"PASSED", "FAILED"} =>
       q.grade = NoInt /\ q.graded_at = NoText

\* C28: a reset of a submission backward past a phase removes what the
\* phase derived: past FEEDBACK_GENERATED the feedback reference, past
\* TESTED the test-result reference, past CHECKED_OUT the comment reference
\* and the checkout directory; leaving PASSED or FAILED clears grade and
\* graded_at; the artifacts of the phases not undone are kept. This holds
\* for Assessor.reset and for the command's do_reset.
C28_ResetRemovesArtifacts ==
  [][last'.op \in {"reset", "do_reset"} =>
       \A r \in stored_rows(db, last'.id) :
         StateValue(last'.target) < StateValue(r.state) =>
           /\ last'.exc = ""
           /\ stored_rows(db', last'.id) # {}
           /\ \A q \in stored_rows(db', last'.id) :
                reset_cleans(r, q, fs'[last'.id], last'.target)
    ]_vars

\* ---------------------------------------------------------------------
\* The end-to-end run
\* ---------------------------------------------------------------------

\* the answers of the run: clone and tests succeed, the AI evaluation
\* returns a review, the upload is declined and the step concluded anyway,
\* the grade is pass
RunEnv ==
  [EnvDefault EXCEPT !.use_ai = TRUE, !.llm = "A", !.upload = FALSE,
                     !.anyway = TRUE, !.grade = "pass"]

\* one confirmed assess() of the Assessor's submission
advance(ex, r) ==
  assess_call(AssessmentPhase_next(r.sub.state), TRUE, r.sub, ex, r.fs, RunEnv)

\* the call stored the state and did not raise
step_to(r, state) == r.write /\ r.exc = "" /\ r.sub.state = state

run_5(r) == step_to(r, "PASSED") /\ r.sub.graded_at # NoTime

run_4(ex, r) == step_to(r, "FEEDBACK_PUBLISHED") /\ run_5(advance(ex, r))

run_3(ex, r) == step_to(r, "FEEDBACK_GENERATED") /\ run_4(ex, advance(ex, r))

run_2(ex, r) == step_to(r, "TESTED") /\ run_3(ex, advance(ex, r))

run_1(ex, r) == step_to(r, "CHECKED_OUT") /\ run_2(ex, advance(ex, r))

five_advances(ex, s) ==
  /\ s # NoSub
  /\ s.state = "SUBMITTED"
  /\ run_1(ex, advance(ex, Done(s, NoFiles, FALSE, "", "", FALSE)))

end_to_end(ex, sid, r) ==
  /\ r.exc = ""
  /\ r.states[sid] = "NEW"
  /\ five_advances(ex, get_submission(r.view, sid))

\* C29: for a pass_fail exercise whose submission is stored UNSUBMITTED,
\* the reconciliation of an incoming record with a url and submitted_at
\* yields NEW with the state SUBMITTED; then five assess() calls move the
\* state one step each through CHECKED_OUT, TESTED, FEEDBACK_GENERATED,
\* FEEDBACK_PUBLISHED (upload declined, proceeding anyway accepted) and
\* PASSED (grade pass), with graded_at set at the end.
C29_EndToEnd ==
  HasSubmissionType(schema) =>
    \A batch \in Batches : \A P \in get_submissions(tx, TheExercise) :
      (/\ P.state = "UNSUBMITTED"
       /\ Len(batch) = 1
       /\ batch[1].state = "SUBMITTED"
       /\ stored_rows(tx, batch[1].id) = {})
      => end_to_end(exercise, batch[1].id,
                    upsert_submissions(tx, schema, batch, FALSE))

\* ------------------------------------------------- the file classifier
\* A path is the sequence of its segments, and a segment the sequence of its
\* pieces: the characters "." and "_", and words that hold neither of them
\* ("Requirements" is the word "requirements" with an upper-case letter).
Words == {"a", "test", "requirements", "Requirements"}
Pieces == {".", "_"} \cup Words

RECURSIVE seqs_up_to(_, _)
seqs_up_to(S, n) ==
  IF n = 0 THEN {<<>>}
  ELSE LET shorter == seqs_up_to(S, n - 1)
       IN  shorter \cup {Append(s, x) : s \in shorter, x \in S}

\* what precedes the extension of a name, and the extensions tried
Stems == seqs_up_to(Pieces, MaxStem)
Extensions == {<<>>, <<".", "py">>, <<".", "txt">>, <<".", "exe">>}
Names == {s \o e : s \in Stems, e \in Extensions} \ {<<>>}

\* the directories a file is found in, below the checkout
DirNames == {<<"a">>, <<".", "a">>, <<"_", "a">>, <<"_", "_", "a">>}
Dirs == seqs_up_to(DirNames, MaxDepth)

\* str.lower()
lower(name) ==
  [i \in 1..Len(name) |->
     IF name[i] = "Requirements" THEN "requirements" ELSE name[i]]

\* PurePath.suffix: from the last "." of the name, unless the name starts
\* or ends with it
suffix(name) ==
  LET dots == {i \in 1..Len(name) : name[i] = "."}
  IN  IF dots = {} THEN <<>>
      ELSE LET i == CHOOSE d \in dots : \A e \in dots : e <= d
           IN  IF 1 < i /\ i < Len(name)
               THEN SubSeq(name, i, Len(name))
               ELSE <<>>

\* str(p.relative_to(project)): the segments joined by "/"
RECURSIVE relative_to(_)
relative_to(segments) ==
  IF Len(segments) = 1 THEN segments[1]
  ELSE segments[1] \o <<"/">> \o relative_to(Tail(segments))

IGNORE_LIST ==
  {<<"requirements", ".", "txt">>, <<"readme", ".", "md">>,
   <<"pyproject", ".", "toml">>, <<"build", ".", "gradle">>}

INTERESTING_TYPES ==
  {<<".", "md">>, <<".", "txt">>, <<".", "py">>, <<".", "java">>,
   <<".", "xml">>, <<".", "toml">>, <<".", "yml">>, <<".", "yaml">>,
   <<".", "csv">>}

\* "__" in pname
has_dunder(pname) ==
  \E i \in 1..(Len(pname) - 1) : pname[i] = "_" /\ pname[i + 1] = "_"

\* feedback.is_uninteresting(p, project), p = project / dirs / name
is_uninteresting(p) ==
  LET fname == p.name
      pname == relative_to(p.dirs \o <<p.name>>)
  IN  IF ~p.is_file THEN TRUE
      ELSE IF suffix(fname) \notin INTERESTING_TYPES THEN TRUE
      ELSE IF pname[1] = "." THEN TRUE
      ELSE IF pname[1] = "_" THEN TRUE
      ELSE IF has_dunder(pname) THEN TRUE
      ELSE IF lower(fname) \in IGNORE_LIST THEN TRUE
      ELSE FALSE

SubmissionFileState == {"UNCHANGED", "NEW", "CHANGED", "IGNORED", "OLD"}

\* the contents of a file, and of the same path below the baseline directory
Bytes == {"b1", "b2"}
Baselines == {"absent"} \cup Bytes

\* the operator's ignore pattern: the names it matches
Patterns == {{}, {<<"a", ".", "py">>}}

\* feedback.determine_submission_file_state is imported by assessment.py and
\* main.py and is not in feedback.py; what it answers for one file of the
\* checkout is taken from the specification's section 4.3, step 3, with the
\* built-in ignore rules being those of is_uninteresting, the only ones of
\* the package.
determine_submission_file_state(p, ignore_pattern) ==
  IF is_uninteresting(p) \/ p.name \in ignore_pattern THEN "IGNORED"
  ELSE IF p.baseline = "absent" THEN "NEW"
  ELSE IF p.baseline = p.bytes THEN "UNCHANGED"
  ELSE "CHANGED"

CheckoutFiles ==
  [dirs : Dirs, name : Names, is_file : BOOLEAN, bytes : Bytes,
   baseline : Baselines, ignore_pattern : Patterns]

\* the classifier is called for the file in the submission's directory
Classify ==
  /\ last.op = "init"
  /\ last' = [NoCall EXCEPT
                !.op = "classify",
                !.note = determine_submission_file_state(fs, fs.ignore_pattern)]
  /\ UNCHANGED <<db, tx, schema, exercise, asr, pc, fs, runs>>

InitClassify ==
  /\ schema = "migrated"
  /\ exercise \in {e \in DriverExercises :
                     /\ e.description_type = "git_repo"
                     /\ e.grading_path = GradingDir
                     /\ e.grading_type = "pass_fail"}
  /\ db = EmptyTables
  /\ tx = db
  /\ asr = NoSub
  /\ pc = "idle"
  /\ fs \in CheckoutFiles
  /\ runs = [p \in AssessmentPhase |-> 0]
  /\ last = NoCall

\* f.name.startswith("test_")
startswith_test(name) == Len(name) >= 2 /\ name[1] = "test" /\ name[2] = "_"

\* feedback.collect_submission_files(folder, ...): the files of the folder
\* whose content is put into the <submission> text. The function of the
\* package has no baseline and no pattern parameter.
collect_submission_files(folder) ==
  {f \in folder : ~is_uninteresting(f) /\ ~startswith_test(f.name)}

\* the submission text is built from the submission's directory
Collect ==
  /\ last.op = "init"
  /\ last' = [NoCall EXCEPT
                !.op = "collect",
                !.note = IF fs \in collect_submission_files({fs})
                         THEN "forwarded" ELSE "omitted"]
  /\ UNCHANGED <<db, tx, schema, exercise, asr, pc, fs, runs>>

NextClassify == Classify \/ Collect

SpecClassify == InitClassify /\ [][NextClassify]_vars

\* ----------------------------------------------------------------------
\* Claims about the file classifier
\* ----------------------------------------------------------------------

\* a hidden file: its name starts with ".", in whatever directory it lies
hidden_file(p) == p.name[1] = "."

\* a segment of the path holds a double underscore
dunder_segment(p) ==
  \E i \in 1..(Len(p.dirs) + 1) : has_dunder((p.dirs \o <<p.name>>)[i])

\* the name of a dependency manifest or of a build file
manifest_name(p) == lower(p.name) \in IGNORE_LIST

\* the ignore rules
ignore_rule(p) ==
  \/ suffix(p.name) \notin INTERESTING_TYPES
  \/ manifest_name(p)
  \/ hidden_file(p)
  \/ dunder_segment(p)
  \/ p.name \in p.ignore_pattern

\* the classification by the baseline's bytes
by_baseline(p) ==
  IF p.baseline = "absent" THEN "NEW"
  ELSE IF p.baseline = p.bytes THEN "UNCHANGED"
  ELSE "CHANGED"

\* C30: every file of the checkout is IGNORED, whatever its content, if its
\* extension is not an interesting one or an ignore rule matches it (the
\* name of a dependency manifest or build file, a hidden file at any depth,
\* a segment with a double underscore, the operator's pattern); otherwise
\* it is UNCHANGED if the baseline holds the path with the same bytes,
\* CHANGED if it holds the path with other bytes, NEW if it lacks the path.
C30_FileClassification ==
  (last.op = "classify" /\ fs.is_file) =>
    last.note = IF ignore_rule(fs) THEN "IGNORED" ELSE by_baseline(fs)

\* C31: the text built for the LLM holds only files classified NEW or
\* CHANGED: never a file whose bytes equal those of the template's file at
\* the same path, and never an ignored file.
C31_OnlyNewOrChangedForwarded ==
  (last.op = "collect" /\ last.note = "forwarded") =>
    /\ fs.baseline # fs.bytes
    /\ determine_submission_file_state(fs, fs.ignore_pattern) # "IGNORED"

\* ------------------------------------------- students, enrollment, exercises
\* The tables of store.sqlite that the course commands fill. A table is
\* the set of its rows; an INSERT of a row whose primary key is taken
\* raises sqlite3.IntegrityError.
CourseIds == 1..MaxCourses
Emails == {"e1", "e2"}
StudentRecords == [id : Students, email : Emails]

EmptyStore == [students |-> {}, enrollment |-> {}, exercises |-> {}]

\* SELECT * FROM enrollment WHERE course_id = ? AND student_id = ?
enrolled(view, course_id, student_id) ==
  <<course_id, student_id>> \in view.enrollment

\* the mutant of student_known: the student is never looked up
student_known_never(view, student_id) == FALSE

\* SELECT * FROM students WHERE id = ?
student_known(view, student_id) == \E r \in view.students : r.id = student_id

\* INSERT INTO students ...
insert_student(view, student) ==
  IF \E r \in view.students : r.id = student.id
  THEN [exc |-> "IntegrityError", view |-> view]
  ELSE [exc |-> "",
        view |-> [view EXCEPT !.students = @ \cup {student}]]

\* INSERT INTO enrollment(course_id, student_id) ...
insert_enrollment(view, course_id, student_id) ==
  IF <<course_id, student_id>> \in view.enrollment
  THEN [exc |-> "IntegrityError", view |-> view]
  ELSE [exc |-> "",
        view |-> [view EXCEPT !.enrollment = @ \cup {<<course_id, student_id>>}]]

\* Storage.upsert_enrollment: what it returns or raises, the tables as the
\* connection sees them afterwards, and whether it committed
upsert_enrollment(view, course_id, student) ==
  IF enrolled(view, course_id, student.id)
  THEN [exc |-> "", result |-> "UNCHANGED", view |-> view, commit |-> FALSE]
  ELSE
  LET s == IF student_known(view, student.id)
           THEN [exc |-> "", view |-> view]
           ELSE insert_student(view, student)
      e == insert_enrollment(s.view, course_id, student.id)
  IN  IF s.exc # ""
      THEN [exc |-> s.exc, result |-> "-", view |-> s.view, commit |-> FALSE]
      ELSE IF e.exc # ""
      THEN [exc |-> e.exc, result |-> "-", view |-> e.view, commit |-> FALSE]
      ELSE [exc |-> "", result |-> "NEW", view |-> e.view, commit |-> TRUE]

StoreCall(op, r, args) ==
  /\ tx' = r.view
  /\ db' = IF r.commit THEN r.view ELSE db
  /\ last' = [op |-> op, exc |-> r.exc, result |-> r.result, args |-> args]
  /\ UNCHANGED <<schema, exercise, asr, pc, fs, runs>>

UpsertEnrollment ==
  \E c \in CourseIds, st \in StudentRecords :
    StoreCall("upsert_enrollment", upsert_enrollment(tx, c, st),
              [course_id |-> c, student |-> st])

InitStore ==
  /\ schema = "ddl"
  /\ exercise \in {e \in DriverExercises :
                     /\ e.description_type = "git_repo"
                     /\ e.grading_path = GradingDir
                     /\ e.grading_type = "pass_fail"}
  /\ db = EmptyStore
  /\ tx = db
  /\ asr = NoSub
  /\ pc = "idle"
  /\ fs = [i \in SubIds |-> NoFiles]
  /\ runs = [p \in AssessmentPhase |-> 0]
  /\ last = [op |-> "init", exc |-> "", result |-> "-", args |-> <<>>]

NextStore == UpsertEnrollment

SpecStore == InitStore /\ [][NextStore]_vars

\* ----------------------------------------------------------------------
\* Claims about the course tables
\* ----------------------------------------------------------------------

\* one row per student id, one row per (course, student) pair
one_row_per_key(view) ==
  /\ \A r1, r2 \in view.students : r1.id = r2.id => r1 = r2
  /\ \A p \in view.enrollment : \E r \in view.students : r.id = p[2]

\* C32: in any sequence of upsert_enrollment calls, a call returns NEW if
\* and only if the (course, student) pair was not enrolled before it, and
\* UNCHANGED otherwise; the store then holds the pair, one row for each
\* student id and one enrollment row for each pair.
C32_EnrollmentUpsert ==
  [][last'.op = "upsert_enrollment" =>
       LET c == last'.args.course_id
           st == last'.args.student
       IN  /\ last'.exc = ""
           /\ last'.result =
                IF enrolled(tx, c, st.id) THEN "UNCHANGED" ELSE "NEW"
           /\ enrolled(db', c, st.id)
           /\ db'.enrollment = db.enrollment \cup {<<c, st.id>>}
           /\ {r.id : r \in db'.students} = {r.id : r \in db.students} \cup {st.id}
           /\ one_row_per_key(db')]_vars

\* a student already enrolled in one course is enrolled in another one
C32_Witness ==
  /\ last.op = "upsert_enrollment"
  /\ last.result = "NEW"
  /\ \E c \in CourseIds :
       c # last.args.course_id /\ enrolled(db, c, last.args.student.id)

\* ------------------------------------------------------ the exercises table
\* A column value: NULL, an integer, or a text. A text is the spelling of a
\* path (str(path), "None" being the path NonePath) or of a number.
Null == [type |-> "null", int |-> 0, path |-> NoPath]
Integer(n) == [type |-> "integer", int |-> n, path |-> NoPath]
Text(p) == [type |-> "text", int |-> 0, path |-> p]

\* a parameter bound from an int | None, and from a str(Path | None)
int_param(n) == IF n = NoInt THEN Null ELSE Integer(n)
str_param(p) == Text(IF p = NoPath THEN NonePath ELSE p)

\* a column declared text stores an integer as the text of its digits
text_affinity(v) == IF v.type = "integer" THEN [v EXCEPT !.type = "text"] ELSE v

\* a column declared integer stores a text that spells a number as the
\* number, and any other text as it is
integer_affinity(v) ==
  IF v.type = "text" /\ v.path = NoPath THEN [v EXCEPT !.type = "integer"] ELSE v

\* datetime.fromisoformat(text)
fromisoformat(text) ==
  [t |-> text.t, tz |-> IF text.off = "" THEN "naive" ELSE "utc"]

Deadlines == {NoTime, [t |-> 1, tz |-> "utc"], [t |-> 1, tz |-> "naive"]}

\* domain.Exercise, without the fields name, category and max_points,
\* which both statements pass through
ExerciseRecords ==
  [id : {TheExercise}, course : {1}, content : {NoStr, "text"},
   description_type : {"git_repo", "canvas_html"}, deadline : Deadlines,
   grading_type : {"pass_fail"}, published : BOOLEAN,
   grading_path : {NoPath, GradingDir}, submission_category_id : {NoInt, 1}]

NoExercise ==
  [id |-> NoInt, course |-> NoInt, content |-> NoStr,
   description_type |-> "canvas_html", deadline |-> NoTime,
   grading_type |-> "points", published |-> TRUE, grading_path |-> NoPath,
   submission_category_id |-> NoInt]

\* the row of the INSERT statement of upsert_exercise
inserted_row(e) ==
  [id |-> e.id, course |-> e.course,
   description_type |-> e.description_type,
   description |-> IF e.description_type = "git_repo" THEN e.content ELSE NoStr,
   deadline |-> isoformat(e.deadline),
   grading_type |-> e.grading_type,
   state |-> IF e.published THEN "published" ELSE "unpublished",
   grade_path |-> text_affinity(str_param(e.grading_path)),
   submission_category_group_id |->
     integer_affinity(int_param(e.submission_category_id))]

\* the row after the UPDATE statement: its parameters are bound in the
\* order submission_category_id, str(grading_path) to the columns
\* grade_path, submission_category_group_id
updated_row(e) ==
  [inserted_row(e) EXCEPT
     !.grade_path = text_affinity(int_param(e.submission_category_id)),
     !.submission_category_group_id =
        integer_affinity(str_param(e.grading_path))]

\* pydantic reads a text as a Path
path_of(v) ==
  IF v.type = "null" THEN NoPath
  ELSE IF v.path # NoPath THEN v.path
  ELSE [abs |-> FALSE, dir |-> "", sub |-> v.int, leaf |-> ""]

\* Storage.get_exercise: the exercise, or NoExercise, or the exception
get_exercise(view, exercise_id) ==
  LET rows == {r \in view.exercises : r.id = exercise_id}
  IN  IF rows = {} THEN [exc |-> "", value |-> NoExercise]
      ELSE
      LET r == CHOOSE x \in rows : TRUE
      IN  IF r.deadline = NoText
          THEN [exc |-> "TypeError", value |-> NoExercise]
          ELSE IF r.submission_category_group_id.type = "text"
          THEN [exc |-> "ValidationError", value |-> NoExercise]
          ELSE [exc |-> "",
                value |->
                  [id |-> exercise_id, course |-> r.course,
                   content |-> r.description,
                   description_type |-> r.description_type,
                   deadline |-> fromisoformat(r.deadline),
                   grading_type |-> r.grading_type,
                   published |-> r.state = "published",
                   grading_path |-> path_of(r.grade_path),
                   submission_category_id |->
                     IF r.submission_category_group_id.type = "null"
                     THEN NoInt
                     ELSE r.submission_category_group_id.int]]

\* Storage.upsert_exercise
upsert_exercise(view, e) ==
  LET old == get_exercise(view, e.id)
  IN  IF old.exc # ""
      THEN [exc |-> old.exc, result |-> "-", view |-> view, commit |-> FALSE]
      ELSE IF old.value # NoExercise /\ old.value = e
      THEN [exc |-> "", result |-> "UNCHANGED", view |-> view, commit |-> FALSE]
      ELSE IF old.value # NoExercise
      THEN [exc |-> "", result |-> "MODIFIED", commit |-> TRUE,
            view |-> [view EXCEPT !.exercises =
                        {IF r.id = e.id /\ r.course = e.course
                         THEN updated_row(e) ELSE r : r \in @}]]
      ELSE [exc |-> "", result |-> "NEW", commit |-> TRUE,
            view |-> [view EXCEPT !.exercises = @ \cup {inserted_row(e)}]]

UpsertExercise ==
  \E e \in ExerciseRecords :
    StoreCall("upsert_exercise", upsert_exercise(tx, e), [exercise |-> e])

NextExercises == UpsertExercise

SpecExercises == InitStore /\ [][NextExercises]_vars

\* C33: after upsert_exercise(e) has inserted or updated the row,
\* get_exercise returns an exercise equal to e in every field (grading_path,
\* present or absent, and submission_category_id included), and upserting
\* e again returns UNCHANGED.
C33_ExerciseRoundTrip ==
  (last.op = "upsert_exercise" /\ last.exc = "") =>
    /\ get_exercise(tx, last.args.exercise.id) =
         [exc |-> "", value |-> last.args.exercise]
    /\ upsert_exercise(tx, last.args.exercise).result = "UNCHANGED"

\* ----------------------------------------------------------------------
\* Further claims about reconciliation
\* ----------------------------------------------------------------------

\* a submission of the batch that is not stored, has no group and one
\* contributor, for an exercise with a submission category
ungrouped_new(view, category, new) ==
  /\ stored_rows(view, new.id) = {}
  /\ new.submission_group_id = NoInt
  /\ category # NoInt
  /\ Len(new.contributions) = 1

\* what the claim expects to be stored for it after the pass r
group_resolved(view, category, new, r) ==
  LET gid == group_of(view, new.contributions[1], category)
      stored == get_submission(r.view, new.id)
  IN  /\ r.exc = ""
      /\ r.states[new.id] = "NEW"
      /\ stored # NoSub
      /\ IF gid # NoInt
         THEN /\ stored.submission_group_id = gid
              /\ stored.submission_group_name = group_name_of(view, gid)
              /\ stored.contributions = members_of(view, gid)
         ELSE /\ stored.submission_group_id = NoInt
              /\ stored.contributions = new.contributions

\* C34: a NEW incoming submission without a group id, for an exercise with
\* a submission category, gets the group of its sole contributor in that
\* category: if there is one the stored submission carries the group's id
\* and name and its contributions are the group's members; if there is
\* none it keeps its single contributor and has no group.
C34_GroupResolvedOnInsert ==
  HasSubmissionType(schema) =>
    \A batch \in Batches :
      (batch # <<>> /\
       ungrouped_new(tx, exercise.submission_category_id, batch[1])) =>
        group_resolved(tx, exercise.submission_category_id, batch[1],
          load_submissions(tx, schema, exercise.submission_category_id, batch))

\* batches that name one submission id twice
DupBatches == {b \in [1..2 -> Incoming] : b[1].id = b[2].id}

\* one submissions row per (id, exercise)
one_row_per_submission(view) ==
  \A r1, r2 \in view.submissions :
    (r1.id = r2.id /\ r1.exercise = r2.exercise) => r1 = r2

\* a pass that returned and left one row per key
pass_completes(r) == r.exc = "" /\ one_row_per_submission(r.view)

\* C35: after any sequence of reconciliation passes, a further pass, also
\* one whose batch names a submission id twice, completes without an error
\* and leaves exactly one submission row per (id, exercise).
C35_DuplicateTolerant ==
  HasSubmissionType(schema) =>
    \A batch \in Batches \cup DupBatches :
      /\ pass_completes(upsert_submissions(tx, schema, batch, FALSE))
      /\ pass_completes(
           load_submissions(tx, schema, exercise.submission_category_id, batch))

\* the stored submissions a pass deleted
deleted_by(view, r) ==
  {P \in get_submissions(view, TheExercise) : stored_rows(r.view, P.id) = {}}

\* a record of the batch with another id names the contributor of P, and no
\* record before it has updated P under its own id
names_contributor(batch, P) ==
  \E k \in 1..Len(batch) :
    /\ batch[k].id # P.id
    /\ \E j \in 1..Len(batch[k].contributions) :
         batch[k].contributions[j] = P.contributions[1]
    /\ \A i \in 1..(k - 1) : batch[i].id # P.id

\* C36: a reconciliation pass deletes a stored submission only if it is
\* UNSUBMITTED with exactly one contributor and a record of the batch with a
\* different id names that contributor; a placeholder the batch has updated
\* before, and a submission in any other state, is never deleted.
C36_DeletesOnlyPlaceholders ==
  HasSubmissionType(schema) =>
    \A batch \in Batches \cup PairBatches, force \in BOOLEAN :
      \A P \in deleted_by(tx, upsert_submissions(tx, schema, batch, force)) :
        /\ P.state = "UNSUBMITTED"
        /\ Len(P.contributions) = 1
        /\ names_contributor(batch, P)

\* a pass that deletes a stored submission
C36_Deletion ==
  /\ HasSubmissionType(schema)
  /\ \E batch \in Batches \cup PairBatches, force \in BOOLEAN :
       \/ deleted_by(tx, upsert_submissions(tx, schema, batch, force)) # {}
       \/ deleted_by(tx, load_submissions(tx, schema,
                            exercise.submission_category_id, batch)) # {}

\* ------------------------------------------- re-fetching while grading
\* what CanvasClient.get_submissions builds for the submission that is being
\* graded: the state comes from SubmissionState.from_workflow_state
BackendStates ==
  {"UNSUBMITTED", "SUBMITTED", "FAILED_IMPORTED", "PASSED_IMPORTED"}

BackendIncoming ==
  {[NoSub EXCEPT !.id = i, !.exercise = TheExercise, !.state = st,
                 !.contributions = <<1>>, !.content = "https://github.com/r",
                 !.submission_type = "online_url",
                 !.submitted_at = IF st = "UNSUBMITTED" THEN NoTime ELSE at]
     : i \in {1}, st \in BackendStates, at \in Times}

BackendBatches == {<<s>> : s \in BackendIncoming}

\* a command fetches the submissions again and reconciles them, without force
Refetch ==
  /\ pc = "idle"
  /\ \E batch \in BackendBatches :
       \/ StorageCall("load", FALSE,
            load_submissions(tx, schema, exercise.submission_category_id, batch))
       \/ StorageCall("upsert", FALSE,
            upsert_submissions(tx, schema, batch, FALSE))

NextRefetch == Next \/ Refetch

SpecRefetch == InitReset /\ [][NextRefetch]_vars

\* the states of a submission that is being graded or has passed
InProgress ==
  {"CHECKED_OUT", "TESTED", "FEEDBACK_GENERATED", "FEEDBACK_PUBLISHED", "PASSED"}

\* the rows of the submissions in progress
rows_in_progress(tables) == {r \in tables.submissions : r.state \in InProgress}

\* C37: whatever advance() calls and non-forced reconciliation passes of
\* backend records went before, a reconciliation pass leaves the row of
\* every stored submission in CHECKED_OUT, TESTED, FEEDBACK_GENERATED,
\* FEEDBACK_PUBLISHED or PASSED as it is: its state, its grade and its
\* artifact references keep their values.
C37_ProgressSurvivesRefetch ==
  [][last'.op \in {"load", "upsert"} =>
       /\ rows_in_progress(db) \subseteq db'.submissions
       /\ rows_in_progress(tx) \subseteq tx'.submissions]_vars

\* a pass has returned that named a submission in progress
C37_Witness ==
  /\ last.op = "load"
  /\ last.exc = ""
  /\ \E r \in rows_in_progress(db) :
       last.states[r.id] \in {"MODIFIED", "REJECTED", "UNCHANGED"}

\* records that list both students as contributors
TwoContributors ==
  {[s EXCEPT !.contributions = <<1, 2>>] : s \in Incoming}

ContributorBatches == Batches \cup {<<s>> : s \in TwoContributors}

\* the contribution rows of submission sid
contribution_rows(view, sid) ==
  {view.contributions[i] : i \in {j \in 1..Len(view.contributions) :
                                    view.contributions[j][2] = sid}}

\* the pass r returned and classified submission sid as result
classified(r, sid, result) == r.exc = "" /\ r.states[sid] = result

\* C38: when upsert_submissions classifies a submission REJECTED it writes
\* nothing for that id: the submission row and the contribution rows of the
\* id are what they were, also when the rejected record lists other
\* contributors.
C38_RejectedWritesNothing ==
  HasSubmissionType(schema) =>
    \A batch \in ContributorBatches :
      LET r == upsert_submissions(tx, schema, batch, FALSE)
      IN  \A k \in 1..Len(batch) :
            classified(r, batch[k].id, "REJECTED") =>
              /\ stored_rows(r.view, batch[k].id) = stored_rows(tx, batch[k].id)
              /\ contribution_rows(r.view, batch[k].id) =
                   contribution_rows(tx, batch[k].id)

\* a pass of upsert_submissions that classifies a submission REJECTED
C38_Rejected ==
  /\ HasSubmissionType(schema)
  /\ \E batch \in ContributorBatches, force \in BOOLEAN :
       \E k \in 1..Len(batch) :
         classified(upsert_submissions(tx, schema, batch, force),
                    batch[k].id, "REJECTED")

\* C39: after upsert_submissions has reported MODIFIED for a submission
\* whose incoming contributions differ from the stored ones, the stored
\* contributions of the submission are the incoming list: get_submissions
\* returns exactly the incoming contributions.
C39_ModifiedContributions ==
  HasSubmissionType(schema) =>
    \A batch \in ContributorBatches, force \in BOOLEAN :
      LET r == upsert_submissions(tx, schema, batch, force)
      IN  \A k \in 1..Len(batch) :
            (/\ classified(r, batch[k].id, "MODIFIED")
             /\ get_submission(tx, batch[k].id).contributions
                  # batch[k].contributions)
            => get_submission(r.view, batch[k].id).contributions
                 = batch[k].contributions

\* a pass of upsert_submissions that reports MODIFIED
C39_Modified ==
  /\ HasSubmissionType(schema)
  /\ \E batch \in ContributorBatches, force \in BOOLEAN :
       \E k \in 1..Len(batch) :
         classified(upsert_submissions(tx, schema, batch, force),
                    batch[k].id, "MODIFIED")

\* C40: main.do_reset(exercise, submission, target), called on a submission
\* whose state is above target, ends with the stored state equal to target,
\* for every target of SubmissionState: never below it and never above it.
C40_ResetReachesTarget ==
  [][(/\ last'.op = "do_reset"
      /\ StateValue(persisted_state(tx, last'.id)) > StateValue(last'.target))
     => persisted_state(db', last'.id) = last'.target]_vars

====
